---- MODULE Spec2Model ----
(***************************************************************************)
(* A model of reod20bot (main.py): a chat bot that rolls a d20, maps the   *)
(* roll to a bucket, a label and a champion drawn from role tables, logs   *)
(* every roll in the SQLite table `rolls`, and answers /stats,             *)
(* /leaderboard, /lb and /champion from that table and the role tables.    *)
(*                                                                         *)
(* Every command handler runs without a suspension point up to its single  *)
(* `await interaction.response.send_message(...)`, so a handler is one     *)
(* atomic action.  The random draws of a handler (random.randint,          *)
(* random.choice), the arguments of the command, and the order in which    *)
(* SQLite returns rows that tie under ORDER BY are the action's inputs.    *)
(* The process starts in __main__ with get_token and client.run; the       *)
(* handlers run once the platform has accepted the login.                  *)
(***************************************************************************)
EXTENDS Integers, Sequences, FiniteSets, TLC

VARIABLES
  tableExists,     \* the rolls table has been created (init_database)
  rows,            \* the rows of the rolls table, in rowid order
  now,             \* the store's clock (CURRENT_TIMESTAMP), in ticks
  request,         \* the interaction handled last: command, user, arguments
  response,        \* what that handler sent (or the exception it raised)
  rollsCompleted,  \* number of roll invocations that returned normally
  sent,            \* send_message calls of the invocation handled last
  openConns,       \* store connections that invocation opened and has not closed
  removed,         \* names taken out of the role tables ({} for the tables as shipped)
  files,           \* the file names in CHAMPION_ICONS_DIR
  process          \* the process: phase, DISCORD_TOKEN, exit status, diagnostics

\* the store
storeVars == <<tableExists, rows, now>>
\* what a command handler never touches
envVars == <<removed, files, process>>

vars ==
  <<tableExists, rows, now, request, response, rollsCompleted, sent, openConns,
    removed, files, process>>

\* Python's None / SQL NULL.
None == "None"

(***************************************************************************)
(* Bounds of the model.                                                    *)
(***************************************************************************)
\* rows the table may hold in the whole-bot specification
MaxRows == 2
\* last value of the clock, in ticks
MaxNow == 1
\* rolls logged under one (user_id, username) pair in a drawn store
MaxPerGroup == 6
\* rolls of user 1 logged after that user changed display name, in a drawn store
MaxRenamed == 1
\* letters of a champion name whose case a query may flip, counted from the left
MaxFlip == 3

\* Ticks per day of the model's clock (SQLite's clock has 86400 seconds per day).
TicksPerDay == 1

(***************************************************************************)
(* Inputs.                                                                 *)
(***************************************************************************)
\* interaction.user.id
Users == {1, 2}
\* interaction.user.display_name; user 1 is seen under two display names
UserNames(u) == IF u = 1 THEN {"ann", "anna"} ELSE {"bob"}
\* random.randint(1, 20)
DieFaces == 1..20
\* the role choices of /roll (main.py:474-480); None when the option is omitted
Roles == {"jungle", "adc", "support", "top", "mid"}
RoleArgs == Roles \cup {None}
\* the category choices of /leaderboard and /lb (main.py:818-827)
Categories ==
  {"total_rolls", "natural_20s", "natural_1s", "luckiest", "unluckiest",
   "highest_avg", "most_active_today", "most_active_week"}

(***************************************************************************)
(* The role tables of main.py.  A Python dict is modelled as the sequence  *)
(* of its <<key, value>> pairs in insertion order, because                 *)
(* get_champion_info depends on the order in which dict.update merges the  *)
(* tables and on the order in which the merged keys are scanned.           *)
(***************************************************************************)
TOP_LANE_CHAMPIONS ==
  <<
    <<"Aatrox", 8>>, <<"Camille", 13>>, <<"Cho'Gath", 7>>, <<"Darius", 13>>, <<"Dr. Mundo", 4>>,
    <<"Fiora", 11>>, <<"Garen", 4>>, <<"Gnar", 16>>, <<"Illaoi", 7>>, <<"Irelia", 14>>,
    <<"Jax", 13>>, <<"Jayce", 4>>, <<"Kayle", 3>>, <<"Kennen", 17>>, <<"Kled", 20>>,
    <<"Malphite", 17>>, <<"Maokai", 9>>, <<"Mordekaiser", 8>>, <<"Nasus", 3>>, <<"Ornn", 14>>,
    <<"Poppy", 10>>, <<"Quinn", 3>>, <<"Renekton", 13>>, <<"Riven", 13>>, <<"Rumble", 8>>,
    <<"Sett", 14>>, <<"Shen", 17>>, <<"Singed", 8>>, <<"Sion", 9>>, <<"Tryndamere", 7>>,
    <<"Urgot", 8>>, <<"Volibear", 14>>, <<"Yorick", 8>>, <<"Teemo", 1>>, <<"Aurora", 2>>,
    <<"Vayne", 3>>, <<"Kalista", 4>>
  >>

SUPPORT_CHAMPIONS ==
  <<
    <<"Alistar", 15>>, <<"Bard", 11>>, <<"Blitzcrank", 14>>, <<"Braum", 10>>, <<"Janna", 3>>,
    <<"Karma", 3>>, <<"Leona", 17>>, <<"Lulu", 7>>, <<"Morgana", 13>>, <<"Nami", 12>>,
    <<"Nautilus", 16>>, <<"Pyke", 11>>, <<"Rakan", 17>>, <<"Rell", 18>>, <<"Renata Glasc", 10>>,
    <<"Sona", 8>>, <<"Soraka", 4>>, <<"Tahm Kench", 9>>, <<"Taric", 9>>, <<"Thresh", 16>>,
    <<"Yuumi", 2>>, <<"Zilean", 7>>, <<"Zyra", 9>>, <<"Milio", 5>>, <<"Malphite", 20>>,
    <<"Teemo", 1>>
  >>

JUNGLE_CHAMPIONS ==
  <<
    <<"Amumu", 17>>, <<"Bel'Veth", 5>>, <<"Briar", 19>>, <<"Diana", 16>>, <<"Ekko", 8>>,
    <<"Elise", 11>>, <<"Evelynn", 8>>, <<"Fiddlesticks", 17>>, <<"Gragas", 12>>, <<"Graves", 4>>,
    <<"Hecarim", 17>>, <<"Ivern", 2>>, <<"Jarvan IV", 16>>, <<"Jax", 13>>, <<"Karthus", 8>>,
    <<"Kayn", 14>>, <<"Kindred", 2>>, <<"Kha'Zix", 14>>, <<"Lee Sin", 17>>, <<"Lillia", 13>>,
    <<"Maokai", 9>>, <<"Master Yi", 5>>, <<"Nidalee", 5>>, <<"Nocturne", 16>>,
    <<"Nunu & Willump", 16>>, <<"Poppy", 10>>, <<"Rammus", 10>>, <<"Rek'Sai", 9>>,
    <<"Rengar", 11>>, <<"Sejuani", 16>>, <<"Shaco", 3>>, <<"Skarner", 16>>, <<"Talon", 11>>,
    <<"Trundle", 8>>, <<"Udyr", 6>>, <<"Vi", 16>>, <<"Viego", 9>>, <<"Warwick", 14>>,
    <<"Wukong", 15>>, <<"Xin Zhao", 9>>, <<"Zac", 17>>, <<"Teemo", 1>>, <<"Malphite", 20>>
  >>

ADC_CHAMPIONS ==
  <<
    <<"Aphelios", 8>>, <<"Ashe", 18>>, <<"Caitlyn", 3>>, <<"Draven", 14>>, <<"Ezreal", 2>>,
    <<"Jhin", 12>>, <<"Jinx", 20>>, <<"Kai'Sa", 14>>, <<"Kalista", 17>>, <<"Kog'Maw", 9>>,
    <<"Lucian", 14>>, <<"Miss Fortune", 8>>, <<"Nilah", 16>>, <<"Samira", 18>>, <<"Senna", 4>>,
    <<"Sivir", 3>>, <<"Tristana", 16>>, <<"Twitch", 16>>, <<"Varus", 16>>, <<"Vayne", 8>>,
    <<"Xayah", 8>>, <<"Zeri", 15>>, <<"Teemo", 1>>
  >>

MID_LANE_CHAMPIONS ==
  <<
    <<"Ahri", 12>>, <<"Akali", 17>>, <<"Anivia", 11>>, <<"Annie", 18>>, <<"Aurelion Sol", 11>>,
    <<"Azir", 17>>, <<"Cassiopeia", 14>>, <<"Corki", 2>>, <<"Diana", 16>>, <<"Ekko", 12>>,
    <<"Fizz", 17>>, <<"Galio", 14>>, <<"Irelia", 17>>, <<"Jayce", 4>>, <<"Kassadin", 12>>,
    <<"Katarina", 17>>, <<"LeBlanc", 8>>, <<"Lissandra", 14>>, <<"Lux", 6>>, <<"Malzahar", 14>>,
    <<"Neeko", 17>>, <<"Orianna", 14>>, <<"Qiyana", 18>>, <<"Ryze", 11>>, <<"Seraphine", 14>>,
    <<"Sylas", 16>>, <<"Syndra", 12>>, <<"Taliyah", 12>>, <<"Talon", 14>>, <<"Twisted Fate", 10>>,
    <<"Veigar", 11>>, <<"Vel'Koz", 4>>, <<"Viktor", 6>>, <<"Vladimir", 7>>, <<"Xerath", 3>>,
    <<"Yasuo", 17>>, <<"Yone", 17>>, <<"Zed", 18>>, <<"Ziggs", 4>>, <<"Zoe", 8>>, <<"Teemo", 1>>,
    <<"Malphite", 20>>
  >>

\* _ICON_OVERRIDES: display name -> icon file name.
ICON_OVERRIDES ==
  <<
    <<"Bel'Veth", "Belveth.png">>, <<"Cho'Gath", "Chogath.png">>, <<"Dr. Mundo", "DrMundo.png">>,
    <<"Jarvan IV", "JarvanIV.png">>, <<"Kai'Sa", "Kaisa.png">>, <<"Kha'Zix", "Khazix.png">>,
    <<"Kog'Maw", "KogMaw.png">>, <<"LeBlanc", "Leblanc.png">>, <<"Lee Sin", "LeeSin.png">>,
    <<"Master Yi", "MasterYi.png">>, <<"Miss Fortune", "MissFortune.png">>,
    <<"Nunu & Willump", "Nunu.png">>, <<"Rek'Sai", "RekSai.png">>,
    <<"Renata Glasc", "Renata.png">>, <<"Tahm Kench", "TahmKench.png">>,
    <<"Twisted Fate", "TwistedFate.png">>, <<"Vel'Koz", "Velkoz.png">>,
    <<"Xin Zhao", "XinZhao.png">>, <<"Wukong", "MonkeyKing.png">>,
    <<"Aurelion Sol", "AurelionSol.png">>
  >>

(***************************************************************************)
(* The characters of every table key, one single-character string each.    *)
(* TLA+ strings are atomic, so the string operations of the source         *)
(* (str.lower, the substring test, re.split) work on these spellings.      *)
(***************************************************************************)
Spelling ==
  <<
    <<"Aatrox", <<"A", "a", "t", "r", "o", "x">>>>,
    <<"Camille", <<"C", "a", "m", "i", "l", "l", "e">>>>,
    <<"Cho'Gath", <<"C", "h", "o", "'", "G", "a", "t", "h">>>>,
    <<"Darius", <<"D", "a", "r", "i", "u", "s">>>>,
    <<"Dr. Mundo", <<"D", "r", ".", " ", "M", "u", "n", "d", "o">>>>,
    <<"Fiora", <<"F", "i", "o", "r", "a">>>>, <<"Garen", <<"G", "a", "r", "e", "n">>>>,
    <<"Gnar", <<"G", "n", "a", "r">>>>, <<"Illaoi", <<"I", "l", "l", "a", "o", "i">>>>,
    <<"Irelia", <<"I", "r", "e", "l", "i", "a">>>>, <<"Jax", <<"J", "a", "x">>>>,
    <<"Jayce", <<"J", "a", "y", "c", "e">>>>, <<"Kayle", <<"K", "a", "y", "l", "e">>>>,
    <<"Kennen", <<"K", "e", "n", "n", "e", "n">>>>, <<"Kled", <<"K", "l", "e", "d">>>>,
    <<"Malphite", <<"M", "a", "l", "p", "h", "i", "t", "e">>>>,
    <<"Maokai", <<"M", "a", "o", "k", "a", "i">>>>,
    <<"Mordekaiser", <<"M", "o", "r", "d", "e", "k", "a", "i", "s", "e", "r">>>>,
    <<"Nasus", <<"N", "a", "s", "u", "s">>>>, <<"Ornn", <<"O", "r", "n", "n">>>>,
    <<"Poppy", <<"P", "o", "p", "p", "y">>>>, <<"Quinn", <<"Q", "u", "i", "n", "n">>>>,
    <<"Renekton", <<"R", "e", "n", "e", "k", "t", "o", "n">>>>,
    <<"Riven", <<"R", "i", "v", "e", "n">>>>, <<"Rumble", <<"R", "u", "m", "b", "l", "e">>>>,
    <<"Sett", <<"S", "e", "t", "t">>>>, <<"Shen", <<"S", "h", "e", "n">>>>,
    <<"Singed", <<"S", "i", "n", "g", "e", "d">>>>, <<"Sion", <<"S", "i", "o", "n">>>>,
    <<"Tryndamere", <<"T", "r", "y", "n", "d", "a", "m", "e", "r", "e">>>>,
    <<"Urgot", <<"U", "r", "g", "o", "t">>>>,
    <<"Volibear", <<"V", "o", "l", "i", "b", "e", "a", "r">>>>,
    <<"Yorick", <<"Y", "o", "r", "i", "c", "k">>>>, <<"Teemo", <<"T", "e", "e", "m", "o">>>>,
    <<"Aurora", <<"A", "u", "r", "o", "r", "a">>>>, <<"Vayne", <<"V", "a", "y", "n", "e">>>>,
    <<"Kalista", <<"K", "a", "l", "i", "s", "t", "a">>>>, <<"Amumu", <<"A", "m", "u", "m", "u">>>>,
    <<"Bel'Veth", <<"B", "e", "l", "'", "V", "e", "t", "h">>>>,
    <<"Briar", <<"B", "r", "i", "a", "r">>>>, <<"Diana", <<"D", "i", "a", "n", "a">>>>,
    <<"Ekko", <<"E", "k", "k", "o">>>>, <<"Elise", <<"E", "l", "i", "s", "e">>>>,
    <<"Evelynn", <<"E", "v", "e", "l", "y", "n", "n">>>>,
    <<"Fiddlesticks", <<"F", "i", "d", "d", "l", "e", "s", "t", "i", "c", "k", "s">>>>,
    <<"Gragas", <<"G", "r", "a", "g", "a", "s">>>>, <<"Graves", <<"G", "r", "a", "v", "e", "s">>>>,
    <<"Hecarim", <<"H", "e", "c", "a", "r", "i", "m">>>>, <<"Ivern", <<"I", "v", "e", "r", "n">>>>,
    <<"Jarvan IV", <<"J", "a", "r", "v", "a", "n", " ", "I", "V">>>>,
    <<"Karthus", <<"K", "a", "r", "t", "h", "u", "s">>>>, <<"Kayn", <<"K", "a", "y", "n">>>>,
    <<"Kindred", <<"K", "i", "n", "d", "r", "e", "d">>>>,
    <<"Kha'Zix", <<"K", "h", "a", "'", "Z", "i", "x">>>>,
    <<"Lee Sin", <<"L", "e", "e", " ", "S", "i", "n">>>>,
    <<"Lillia", <<"L", "i", "l", "l", "i", "a">>>>,
    <<"Master Yi", <<"M", "a", "s", "t", "e", "r", " ", "Y", "i">>>>,
    <<"Nidalee", <<"N", "i", "d", "a", "l", "e", "e">>>>,
    <<"Nocturne", <<"N", "o", "c", "t", "u", "r", "n", "e">>>>,
    <<"Nunu & Willump", <<"N", "u", "n", "u", " ", "&", " ", "W", "i", "l", "l", "u", "m", "p">>>>,
    <<"Rammus", <<"R", "a", "m", "m", "u", "s">>>>,
    <<"Rek'Sai", <<"R", "e", "k", "'", "S", "a", "i">>>>,
    <<"Rengar", <<"R", "e", "n", "g", "a", "r">>>>,
    <<"Sejuani", <<"S", "e", "j", "u", "a", "n", "i">>>>, <<"Shaco", <<"S", "h", "a", "c", "o">>>>,
    <<"Skarner", <<"S", "k", "a", "r", "n", "e", "r">>>>, <<"Talon", <<"T", "a", "l", "o", "n">>>>,
    <<"Trundle", <<"T", "r", "u", "n", "d", "l", "e">>>>, <<"Udyr", <<"U", "d", "y", "r">>>>,
    <<"Vi", <<"V", "i">>>>, <<"Viego", <<"V", "i", "e", "g", "o">>>>,
    <<"Warwick", <<"W", "a", "r", "w", "i", "c", "k">>>>,
    <<"Wukong", <<"W", "u", "k", "o", "n", "g">>>>,
    <<"Xin Zhao", <<"X", "i", "n", " ", "Z", "h", "a", "o">>>>, <<"Zac", <<"Z", "a", "c">>>>,
    <<"Aphelios", <<"A", "p", "h", "e", "l", "i", "o", "s">>>>, <<"Ashe", <<"A", "s", "h", "e">>>>,
    <<"Caitlyn", <<"C", "a", "i", "t", "l", "y", "n">>>>,
    <<"Draven", <<"D", "r", "a", "v", "e", "n">>>>, <<"Ezreal", <<"E", "z", "r", "e", "a", "l">>>>,
    <<"Jhin", <<"J", "h", "i", "n">>>>, <<"Jinx", <<"J", "i", "n", "x">>>>,
    <<"Kai'Sa", <<"K", "a", "i", "'", "S", "a">>>>,
    <<"Kog'Maw", <<"K", "o", "g", "'", "M", "a", "w">>>>,
    <<"Lucian", <<"L", "u", "c", "i", "a", "n">>>>,
    <<"Miss Fortune", <<"M", "i", "s", "s", " ", "F", "o", "r", "t", "u", "n", "e">>>>,
    <<"Nilah", <<"N", "i", "l", "a", "h">>>>, <<"Samira", <<"S", "a", "m", "i", "r", "a">>>>,
    <<"Senna", <<"S", "e", "n", "n", "a">>>>, <<"Sivir", <<"S", "i", "v", "i", "r">>>>,
    <<"Tristana", <<"T", "r", "i", "s", "t", "a", "n", "a">>>>,
    <<"Twitch", <<"T", "w", "i", "t", "c", "h">>>>, <<"Varus", <<"V", "a", "r", "u", "s">>>>,
    <<"Xayah", <<"X", "a", "y", "a", "h">>>>, <<"Zeri", <<"Z", "e", "r", "i">>>>,
    <<"Ahri", <<"A", "h", "r", "i">>>>, <<"Akali", <<"A", "k", "a", "l", "i">>>>,
    <<"Anivia", <<"A", "n", "i", "v", "i", "a">>>>, <<"Annie", <<"A", "n", "n", "i", "e">>>>,
    <<"Aurelion Sol", <<"A", "u", "r", "e", "l", "i", "o", "n", " ", "S", "o", "l">>>>,
    <<"Azir", <<"A", "z", "i", "r">>>>,
    <<"Cassiopeia", <<"C", "a", "s", "s", "i", "o", "p", "e", "i", "a">>>>,
    <<"Corki", <<"C", "o", "r", "k", "i">>>>, <<"Fizz", <<"F", "i", "z", "z">>>>,
    <<"Galio", <<"G", "a", "l", "i", "o">>>>,
    <<"Kassadin", <<"K", "a", "s", "s", "a", "d", "i", "n">>>>,
    <<"Katarina", <<"K", "a", "t", "a", "r", "i", "n", "a">>>>,
    <<"LeBlanc", <<"L", "e", "B", "l", "a", "n", "c">>>>,
    <<"Lissandra", <<"L", "i", "s", "s", "a", "n", "d", "r", "a">>>>, <<"Lux", <<"L", "u", "x">>>>,
    <<"Malzahar", <<"M", "a", "l", "z", "a", "h", "a", "r">>>>,
    <<"Neeko", <<"N", "e", "e", "k", "o">>>>, <<"Orianna", <<"O", "r", "i", "a", "n", "n", "a">>>>,
    <<"Qiyana", <<"Q", "i", "y", "a", "n", "a">>>>, <<"Ryze", <<"R", "y", "z", "e">>>>,
    <<"Seraphine", <<"S", "e", "r", "a", "p", "h", "i", "n", "e">>>>,
    <<"Sylas", <<"S", "y", "l", "a", "s">>>>, <<"Syndra", <<"S", "y", "n", "d", "r", "a">>>>,
    <<"Taliyah", <<"T", "a", "l", "i", "y", "a", "h">>>>,
    <<"Twisted Fate", <<"T", "w", "i", "s", "t", "e", "d", " ", "F", "a", "t", "e">>>>,
    <<"Veigar", <<"V", "e", "i", "g", "a", "r">>>>,
    <<"Vel'Koz", <<"V", "e", "l", "'", "K", "o", "z">>>>,
    <<"Viktor", <<"V", "i", "k", "t", "o", "r">>>>,
    <<"Vladimir", <<"V", "l", "a", "d", "i", "m", "i", "r">>>>,
    <<"Xerath", <<"X", "e", "r", "a", "t", "h">>>>, <<"Yasuo", <<"Y", "a", "s", "u", "o">>>>,
    <<"Yone", <<"Y", "o", "n", "e">>>>, <<"Zed", <<"Z", "e", "d">>>>,
    <<"Ziggs", <<"Z", "i", "g", "g", "s">>>>, <<"Zoe", <<"Z", "o", "e">>>>,
    <<"Alistar", <<"A", "l", "i", "s", "t", "a", "r">>>>, <<"Bard", <<"B", "a", "r", "d">>>>,
    <<"Blitzcrank", <<"B", "l", "i", "t", "z", "c", "r", "a", "n", "k">>>>,
    <<"Braum", <<"B", "r", "a", "u", "m">>>>, <<"Janna", <<"J", "a", "n", "n", "a">>>>,
    <<"Karma", <<"K", "a", "r", "m", "a">>>>, <<"Leona", <<"L", "e", "o", "n", "a">>>>,
    <<"Lulu", <<"L", "u", "l", "u">>>>, <<"Morgana", <<"M", "o", "r", "g", "a", "n", "a">>>>,
    <<"Nami", <<"N", "a", "m", "i">>>>, <<"Nautilus", <<"N", "a", "u", "t", "i", "l", "u", "s">>>>,
    <<"Pyke", <<"P", "y", "k", "e">>>>, <<"Rakan", <<"R", "a", "k", "a", "n">>>>,
    <<"Rell", <<"R", "e", "l", "l">>>>,
    <<"Renata Glasc", <<"R", "e", "n", "a", "t", "a", " ", "G", "l", "a", "s", "c">>>>,
    <<"Sona", <<"S", "o", "n", "a">>>>, <<"Soraka", <<"S", "o", "r", "a", "k", "a">>>>,
    <<"Tahm Kench", <<"T", "a", "h", "m", " ", "K", "e", "n", "c", "h">>>>,
    <<"Taric", <<"T", "a", "r", "i", "c">>>>, <<"Thresh", <<"T", "h", "r", "e", "s", "h">>>>,
    <<"Yuumi", <<"Y", "u", "u", "m", "i">>>>, <<"Zilean", <<"Z", "i", "l", "e", "a", "n">>>>,
    <<"Zyra", <<"Z", "y", "r", "a">>>>, <<"Milio", <<"M", "i", "l", "i", "o">>>>
  >>

(***************************************************************************)
(* The characters of every icon file name of _ICON_OVERRIDES.              *)
(***************************************************************************)
FileSpelling ==
  <<
    <<"Belveth.png", <<"B", "e", "l", "v", "e", "t", "h", ".", "p", "n", "g">>>>,
    <<"Chogath.png", <<"C", "h", "o", "g", "a", "t", "h", ".", "p", "n", "g">>>>,
    <<"DrMundo.png", <<"D", "r", "M", "u", "n", "d", "o", ".", "p", "n", "g">>>>,
    <<"JarvanIV.png", <<"J", "a", "r", "v", "a", "n", "I", "V", ".", "p", "n", "g">>>>,
    <<"Kaisa.png", <<"K", "a", "i", "s", "a", ".", "p", "n", "g">>>>,
    <<"Khazix.png", <<"K", "h", "a", "z", "i", "x", ".", "p", "n", "g">>>>,
    <<"KogMaw.png", <<"K", "o", "g", "M", "a", "w", ".", "p", "n", "g">>>>,
    <<"Leblanc.png", <<"L", "e", "b", "l", "a", "n", "c", ".", "p", "n", "g">>>>,
    <<"LeeSin.png", <<"L", "e", "e", "S", "i", "n", ".", "p", "n", "g">>>>,
    <<"MasterYi.png", <<"M", "a", "s", "t", "e", "r", "Y", "i", ".", "p", "n", "g">>>>,
    <<"MissFortune.png", <<"M", "i", "s", "s", "F", "o", "r", "t", "u", "n", "e", ".", "p", "n", "g">>>>,
    <<"Nunu.png", <<"N", "u", "n", "u", ".", "p", "n", "g">>>>,
    <<"RekSai.png", <<"R", "e", "k", "S", "a", "i", ".", "p", "n", "g">>>>,
    <<"Renata.png", <<"R", "e", "n", "a", "t", "a", ".", "p", "n", "g">>>>,
    <<"TahmKench.png", <<"T", "a", "h", "m", "K", "e", "n", "c", "h", ".", "p", "n", "g">>>>,
    <<"TwistedFate.png", <<"T", "w", "i", "s", "t", "e", "d", "F", "a", "t", "e", ".", "p", "n", "g">>>>,
    <<"Velkoz.png", <<"V", "e", "l", "k", "o", "z", ".", "p", "n", "g">>>>,
    <<"XinZhao.png", <<"X", "i", "n", "Z", "h", "a", "o", ".", "p", "n", "g">>>>,
    <<"MonkeyKing.png", <<"M", "o", "n", "k", "e", "y", "K", "i", "n", "g", ".", "p", "n", "g">>>>,
    <<"AurelionSol.png", <<"A", "u", "r", "e", "l", "i", "o", "n", "S", "o", "l", ".", "p", "n", "g">>>>
  >>

(***************************************************************************)
(* Python dict operations on a sequence of <<key, value>> pairs.           *)
(***************************************************************************)
\* d.keys(), in insertion order
DictKeys(d) == [i \in 1..Len(d) |-> d[i][1]]

\* set(d.keys())
KeySet(d) == {d[i][1] : i \in 1..Len(d)}

\* key in d
Has(d, k) == \E i \in 1..Len(d) : d[i][1] = k

\* d[k]; d.get(k) is None for an absent key
Get(d, k) == IF Has(d, k) THEN d[CHOOSE i \in 1..Len(d) : d[i][1] = k][2] ELSE None

\* d.update(e), for dicts with unique keys: a key of d keeps its position and takes the
\* value of e, the new keys of e are appended in the order of e
DictUpdate(d, e) ==
  [i \in 1..Len(d) |-> IF Has(e, d[i][1]) THEN <<d[i][1], Get(e, d[i][1])>> ELSE d[i]]
    \o SelectSeq(e, LAMBDA p : ~Has(d, p[1]))

(***************************************************************************)
(* str.lower on a spelling.  Every character of the tables is an ASCII     *)
(* letter or one of space, apostrophe, ampersand and full stop, which      *)
(* str.lower leaves alone.                                                 *)
(***************************************************************************)
UpperLetters ==
  <<"A", "B", "C", "D", "E", "F", "G", "H", "I", "J", "K", "L", "M",
    "N", "O", "P", "Q", "R", "S", "T", "U", "V", "W", "X", "Y", "Z">>

LowerLetters ==
  <<"a", "b", "c", "d", "e", "f", "g", "h", "i", "j", "k", "l", "m",
    "n", "o", "p", "q", "r", "s", "t", "u", "v", "w", "x", "y", "z">>

IsUpper(c) == \E i \in 1..26 : UpperLetters[i] = c
IsLower(c) == \E i \in 1..26 : LowerLetters[i] = c
IsLetter(c) == IsUpper(c) \/ IsLower(c)

LowerChar(c) ==
  IF IsUpper(c) THEN LowerLetters[CHOOSE i \in 1..26 : UpperLetters[i] = c] ELSE c

UpperChar(c) ==
  IF IsLower(c) THEN UpperLetters[CHOOSE i \in 1..26 : LowerLetters[i] = c] ELSE c

\* s.lower()
Lower(s) == [i \in 1..Len(s) |-> LowerChar(s[i])]

\* s.upper()
Upper(s) == [i \in 1..Len(s) |-> UpperChar(s[i])]

\* the characters of a table key
Chars(name) == Get(Spelling, name)

\* ord(c) for the characters of the table keys
CodePoint(c) ==
  IF c = " " THEN 32
  ELSE IF c = "&" THEN 38
  ELSE IF c = "'" THEN 39
  ELSE IF c = "." THEN 46
  ELSE IF IsUpper(c) THEN 64 + (CHOOSE i \in 1..26 : UpperLetters[i] = c)
  ELSE 96 + (CHOOSE i \in 1..26 : LowerLetters[i] = c)

\* a < b for two spellings (Python compares strings code point by code point, and a
\* proper prefix is less)
RECURSIVE StrLess(_, _)
StrLess(a, b) ==
  IF b = <<>> THEN FALSE
  ELSE IF a = <<>> THEN TRUE
  ELSE IF a[1] # b[1] THEN CodePoint(a[1]) < CodePoint(b[1])
  ELSE StrLess(Tail(a), Tail(b))

\* Bucket with the third test written 5 <= roll_value < 9: a roll of 9 falls through to
\* the final else.
BucketShortRange(roll_value) ==
  IF roll_value = 1 THEN <<1, 1>>
  ELSE IF 2 <= roll_value /\ roll_value <= 4 THEN <<2, 4>>
  ELSE IF 5 <= roll_value /\ roll_value < 9 THEN <<5, 9>>
  ELSE IF 10 <= roll_value /\ roll_value <= 14 THEN <<10, 14>>
  ELSE IF 15 <= roll_value /\ roll_value <= 19 THEN <<15, 19>>
  ELSE <<20, 20>>

(***************************************************************************)
(* /roll: the bucket of a roll value (main.py:485-526).  The source is an  *)
(* if/elif chain; the first branch whose test holds sets low, high and     *)
(* labels, and the final else is taken by every value no test accepts.     *)
(***************************************************************************)
Bucket(roll_value) ==
  IF roll_value = 1 THEN <<1, 1>>
  ELSE IF 2 <= roll_value /\ roll_value <= 4 THEN <<2, 4>>
  ELSE IF 5 <= roll_value /\ roll_value <= 9 THEN <<5, 9>>
  ELSE IF 10 <= roll_value /\ roll_value <= 14 THEN <<10, 14>>
  ELSE IF 15 <= roll_value /\ roll_value <= 19 THEN <<15, 19>>
  ELSE <<20, 20>>

\* The labels of each branch, by their opening words.
Labels(roll_value) ==
  IF roll_value = 1 THEN
    <<"Chuck Norris rolled a 1 once.", "Worst roll I've ever seen.",
      "That's not a roll, that's a cry for help.", "You know you deserve this...",
      "Natural one. Congratulations.", "Just dodge...">>
  ELSE IF 2 <= roll_value /\ roll_value <= 4 THEN
    <<"Be nowhere near the enemy this game...", "Get down! Stay out of sight",
      "Your best move? Pretend you're furniture.", "Walk away from danger.",
      "The best fight is the one you don't take.">>
  ELSE IF 5 <= roll_value /\ roll_value <= 9 THEN
    <<"You get some rope this game.", "Light skirmishes only.">>
  ELSE IF 10 <= roll_value /\ roll_value <= 14 THEN
    <<"Your team is relying on you to make plays this game.">>
  ELSE IF 15 <= roll_value /\ roll_value <= 19 THEN
    <<"YOU ARE THE ENGAGE. BE THE ENGAGE.", "Get to the teamfight!",
      "Ring the bell. You lead the charge.">>
  ELSE
    <<"The team fights when you say they fight!">>

\* The five tables, in the order the source lists them (main.py:534).
AllMaps ==
  <<TOP_LANE_CHAMPIONS, JUNGLE_CHAMPIONS, ADC_CHAMPIONS, MID_LANE_CHAMPIONS,
    SUPPORT_CHAMPIONS>>

\* maps (main.py:531-549)
Maps(role_value) ==
  IF role_value = None THEN AllMaps
  ELSE IF role_value = "top" THEN <<TOP_LANE_CHAMPIONS>>
  ELSE IF role_value = "jungle" THEN <<JUNGLE_CHAMPIONS>>
  ELSE IF role_value = "adc" THEN <<ADC_CHAMPIONS>>
  ELSE IF role_value = "mid" THEN <<MID_LANE_CHAMPIONS>>
  ELSE IF role_value = "support" THEN <<SUPPORT_CHAMPIONS>>
  ELSE AllMaps

\* scope (main.py:532-549)
Scope(role_value) ==
  IF role_value = None THEN "all roles"
  ELSE IF role_value \in {"top", "jungle", "adc", "mid", "support"} THEN role_value
  ELSE "all roles"

\* FilterNames without the upper test of low <= score <= high.
FilterNamesNoUpper(maps, low, high) ==
  UNION {{maps[m][i][1] : i \in {j \in 1..Len(maps[m]) : low <= maps[m][j][2]}} :
         m \in 1..Len(maps)}

\* FilterNames with the test written low <= score < high.
FilterNamesBelowHigh(maps, low, high) ==
  UNION {{maps[m][i][1] : i \in {j \in 1..Len(maps[m]) :
                                  low <= maps[m][j][2] /\ maps[m][j][2] < high}} :
         m \in 1..Len(maps)}

\* names (main.py:552-556): every key of a map in scope whose score is in the bucket
FilterNames(maps, low, high) ==
  UNION {{maps[m][i][1] : i \in {j \in 1..Len(maps[m]) :
                                  low <= maps[m][j][2] /\ maps[m][j][2] <= high}} :
         m \in 1..Len(maps)}

\* The filtered names of every roll value and role argument, computed once.
NamesTable ==
  [v \in DieFaces, r \in RoleArgs |-> FilterNames(Maps(r), Bucket(v)[1], Bucket(v)[2])]

Names(roll_value, role_value) == NamesTable[roll_value, role_value]

(***************************************************************************)
(* get_champion_info (main.py:382-437), on the spelling of the name.       *)
(***************************************************************************)
\* all_champions after the five update calls (main.py:385-390)
all_champions ==
  DictUpdate(DictUpdate(DictUpdate(DictUpdate(DictUpdate(<<>>,
    TOP_LANE_CHAMPIONS), JUNGLE_CHAMPIONS), ADC_CHAMPIONS), MID_LANE_CHAMPIONS),
    SUPPORT_CHAMPIONS)

\* the spellings of the merged keys, lower-cased once
LoweredKeys == [i \in 1..Len(all_champions) |-> Lower(Chars(all_champions[i][1]))]

\* KeyMatches comparing the key and the name as they are spelled.
KeyMatchesExact(i, champion_name) == Chars(all_champions[i][1]) = champion_name

\* the test of the scan (main.py:395)
KeyMatches(i, champion_name) == LoweredKeys[i] = Lower(champion_name)

\* champion_key (main.py:393-397): the first merged key that matches, or None
ChampionKey(champion_name) ==
  IF \E i \in 1..Len(all_champions) : KeyMatches(i, champion_name)
    THEN LET first == CHOOSE i \in 1..Len(all_champions) :
                        /\ KeyMatches(i, champion_name)
                        /\ \A j \in 1..(i - 1) : ~KeyMatches(j, champion_name)
         IN  all_champions[first][1]
    ELSE None

\* roles (main.py:405-415)
RolesOf(champion_key) ==
  (IF Has(TOP_LANE_CHAMPIONS, champion_key) THEN <<"Top">> ELSE <<>>)
  \o (IF Has(JUNGLE_CHAMPIONS, champion_key) THEN <<"Jungle">> ELSE <<>>)
  \o (IF Has(ADC_CHAMPIONS, champion_key) THEN <<"ADC">> ELSE <<>>)
  \o (IF Has(MID_LANE_CHAMPIONS, champion_key) THEN <<"Mid">> ELSE <<>>)
  \o (IF Has(SUPPORT_CHAMPIONS, champion_key) THEN <<"Support">> ELSE <<>>)

\* aggression_desc (main.py:418-429)
AggressionDesc(aggression) ==
  IF aggression = 1 THEN "Ultra Passive"
  ELSE IF 2 <= aggression /\ aggression <= 4 THEN "Very Passive"
  ELSE IF 5 <= aggression /\ aggression <= 9 THEN "Moderate"
  ELSE IF 10 <= aggression /\ aggression <= 14 THEN "Aggressive"
  ELSE IF 15 <= aggression /\ aggression <= 19 THEN "Very Aggressive"
  ELSE "Ultra Aggressive"

\* The record get_champion_info returns; found is FALSE where the source returns None.
get_champion_info(champion_name) ==
  LET champion_key == ChampionKey(champion_name)
  IN  IF champion_key = None THEN [found |-> FALSE]
      ELSE [found |-> TRUE,
            name |-> champion_key,
            aggression |-> Get(all_champions, champion_key),
            aggression_desc |-> AggressionDesc(Get(all_champions, champion_key)),
            roles |-> RolesOf(champion_key)]

\* get_champion_info of every table key, computed once (the call of main.py:615)
InfoTable == [k \in KeySet(all_champions) |-> get_champion_info(Chars(k))]

(***************************************************************************)
(* Icon resolution (main.py:439-470).  A file name is the sequence of its  *)
(* characters; the directory is fixed, so a path is modelled by its file   *)
(* name.  A result is <<>> where the source returns None.                  *)
(***************************************************************************)
\* the characters of an icon file name of _ICON_OVERRIDES
FileChars(fname) == Get(FileSpelling, fname)

\* _default_icon_filename (main.py:439-443): re.split on the runs of non-letters, the
\* parts joined, ".png" appended
default_icon_filename(name) ==
  SelectSeq(Chars(name), IsLetter) \o <<".", "p", "n", "g">>

\* s.replace("'", "").replace(" ", "")
WithoutQuoteAndSpace(s) == SelectSeq(s, LAMBDA c : c # "'" /\ c # " ")

\* Candidates trying the derived file name before the override.
CandidatesDerivedFirst(name) ==
  <<default_icon_filename(name)>>
    \o (IF Get(ICON_OVERRIDES, name) # None
          THEN <<FileChars(Get(ICON_OVERRIDES, name))>> ELSE <<>>)

\* candidates (main.py:448-457): the override, the derived name, and for a name without
\* override the derived name once more with quotes and spaces taken out
Candidates(name) ==
  (IF Get(ICON_OVERRIDES, name) # None
     THEN <<FileChars(Get(ICON_OVERRIDES, name))>> ELSE <<>>)
  \o <<default_icon_filename(name)>>
  \o (IF Get(ICON_OVERRIDES, name) = None
        THEN <<WithoutQuoteAndSpace(default_icon_filename(name))>> ELSE <<>>)

\* uniq_candidates (main.py:459-464): the first occurrence of every candidate
Uniq(candidates) ==
  SelectSeq([i \in 1..Len(candidates) |->
               IF \E j \in 1..(i - 1) : candidates[j] = candidates[i]
                 THEN <<>> ELSE <<candidates[i]>>],
            LAMBDA c : c # <<>>)

\* get_icon_path_for_champion (main.py:446-470): the first candidate that is a file of
\* the icon directory dir_files
get_icon_path_for_champion(name, dir_files) ==
  LET uniq_candidates == [i \in 1..Len(Uniq(Candidates(name))) |->
                            Uniq(Candidates(name))[i][1]]
      existing == SelectSeq(uniq_candidates, LAMBDA f : f \in dir_files)
  IN  IF existing = <<>> THEN <<>> ELSE <<existing[1]>>
(***************************************************************************)
(* The rolls table (main.py:154-164).  A row is a record                   *)
(*   [id, user_id, username, roll_value, role, champion, timestamp];       *)
(* role and champion may be None (NULL).  timestamp is the clock value at  *)
(* the insert (DEFAULT CURRENT_TIMESTAMP).                                 *)
(***************************************************************************)
\* log_roll whose INSERT is not committed.
log_roll_uncommitted(table, clock, user_id, username, roll_value, role, champion) == table

\* log_roll (main.py:169-180): the table after the INSERT
log_roll(table, clock, user_id, username, roll_value, role, champion) ==
  Append(table,
         [id |-> Len(table) + 1, user_id |-> user_id, username |-> username,
          roll_value |-> roll_value, role |-> role, champion |-> champion,
          timestamp |-> clock])

\* init_database dropping and recreating the table.
init_database_recreate(table) == <<>>

\* init_database (main.py:148-167): CREATE TABLE IF NOT EXISTS keeps an existing table
init_database(table) == table

\* the rows of a table as a set
RowSet(table) == {table[i] : i \in 1..Len(table)}

\* the number of rows of a set (the SQL row count aggregate)
Count(S) == Cardinality(S)

\* SUM(roll_value) over a set of rows
RECURSIVE SumRolls(_)
SumRolls(S) ==
  IF S = {} THEN 0
  ELSE LET r == CHOOSE x \in S : TRUE IN r.roll_value + SumRolls(S \ {r})

\* ROUND(num * 1.0 / den, 2) in hundredths, for num >= 0 and den > 0.  SQLite
\* rounds half away from zero.
Round2(num, den) == (200 * num + den) \div (2 * den)

\* DATE(timestamp)
DateOf(t) == t \div TicksPerDay

\* Lexicographic "greater than" on tuples of numbers of equal length (ORDER BY ... DESC).
RECURSIVE LexGreater(_, _)
LexGreater(a, b) ==
  IF a = <<>> THEN FALSE
  ELSE IF a[1] # b[1] THEN a[1] > b[1]
  ELSE LexGreater(Tail(a), Tail(b))

\* All orders in which a query may return the set S of result rows when
\* ORDER BY ... DESC sorts them by the columns key[r]: rows that tie come in
\* an order SQL leaves open.
Orderings(S, key) ==
  {f \in [1..Cardinality(S) -> S] :
     /\ \A i, j \in 1..Cardinality(S) : i # j => f[i] # f[j]
     /\ \A i, j \in 1..Cardinality(S) : i < j => ~LexGreater(key[f[j]], key[f[i]])}

\* LIMIT n
Limit(s, n) == SubSeq(s, 1, IF Len(s) < n THEN Len(s) ELSE n)

(***************************************************************************)
(* get_user_stats (main.py:182-216)                                        *)
(***************************************************************************)
UserRows(table, user_id) == {r \in RowSet(table) : r.user_id = user_id}

\* the possible values of recent_rolls: ORDER BY timestamp DESC LIMIT 10
RecentRolls(table, user_id) ==
  {Limit(f, 10) :
     f \in Orderings(UserRows(table, user_id),
                     [r \in UserRows(table, user_id) |-> <<r.timestamp>>])}

get_user_stats(table, user_id, recent_rolls) ==
  [total_rolls |-> Count(UserRows(table, user_id)),
   natural_20s |-> Count({r \in UserRows(table, user_id) : r.roll_value = 20}),
   natural_1s |-> Count({r \in UserRows(table, user_id) : r.roll_value = 1}),
   recent_rolls |-> recent_rolls]

(***************************************************************************)
(* get_leaderboard_data (main.py:218-320).  Every category is one SELECT   *)
(* ... GROUP BY user_id, username; the definitions below give its WHERE,   *)
(* HAVING, result columns and ORDER BY.                                    *)
(***************************************************************************)
\* the minimum number of rolls of HAVING total_rolls >= 5
MinSample == 5

\* the days of datetime('now', '-7 days')
WeekDays == 7

\* the categories get_leaderboard_data knows; any other returns []
KnownCategories ==
  {"total_rolls", "natural_20s", "natural_1s", "luckiest", "unluckiest",
   "highest_avg", "most_active_today", "most_active_week"}

\* WHERE
Where(category, r, clock) ==
  IF category = "natural_20s" THEN r.roll_value = 20
  ELSE IF category = "natural_1s" THEN r.roll_value = 1
  ELSE IF category = "most_active_today" THEN DateOf(r.timestamp) = DateOf(clock)
  ELSE IF category = "most_active_week" THEN r.timestamp >= clock - WeekDays * TicksPerDay
  ELSE TRUE

\* GROUP BY user_id, username
GroupsOf(S) == {<<r.user_id, r.username>> : r \in S}
GroupRows(S, g) == {r \in S : r.user_id = g[1] /\ r.username = g[2]}

\* Having without the minimum sample.
HavingAny(category, G) == TRUE

\* HAVING, on the rows G of one group
Having(category, G) ==
  IF category \in {"luckiest", "unluckiest", "highest_avg"} THEN Count(G) >= MinSample
  ELSE TRUE

\* the columns after user_id and username (the entry's data), on the rows G of one group
Data(category, G) ==
  IF category = "luckiest" THEN
    <<Count({r \in G : r.roll_value = 20}), Count(G),
      Round2(100 * Count({r \in G : r.roll_value = 20}), Count(G))>>
  ELSE IF category = "unluckiest" THEN
    <<Count({r \in G : r.roll_value = 1}), Count(G),
      Round2(100 * Count({r \in G : r.roll_value = 1}), Count(G))>>
  ELSE IF category = "highest_avg" THEN
    <<Round2(SumRolls(G), Count(G)), Count(G)>>
  ELSE <<Count(G)>>

\* OrderKey sorting luckiest and unluckiest by the count instead of the percentage.
OrderKeyByCount(category, data) ==
  IF category \in {"luckiest", "unluckiest"} THEN <<data[1]>>
  ELSE IF category = "highest_avg" THEN <<data[1], data[2]>>
  ELSE <<data[1]>>

\* ORDER BY ... DESC: the columns of data the result is sorted by
OrderKey(category, data) ==
  IF category \in {"luckiest", "unluckiest"} THEN <<data[3], data[1]>>
  ELSE IF category = "highest_avg" THEN <<data[1], data[2]>>
  ELSE <<data[1]>>

\* the result rows of the SELECT before ORDER BY and LIMIT
ResultRows(table, clock, category) ==
  LET S == {r \in RowSet(table) : Where(category, r, clock)}
  IN  {[user_id |-> g[1], username |-> g[2], data |-> Data(category, GroupRows(S, g))] :
         g \in {h \in GroupsOf(S) : Having(category, GroupRows(S, h))}}

\* leaderboard (main.py:310-318): enumerate(results, 1)
Ranked(results) ==
  [i \in 1..Len(results) |->
     [rank |-> i, user_id |-> results[i].user_id, username |-> results[i].username,
      data |-> results[i].data]]

\* The lists get_leaderboard_data may return: one for each order SQLite may give to ties.
get_leaderboard_data(table, clock, category, limit) ==
  IF category \notin KnownCategories THEN {<<>>}
  ELSE {Ranked(Limit(f, limit)) :
          f \in Orderings(ResultRows(table, clock, category),
                          [r \in ResultRows(table, clock, category) |->
                             OrderKey(category, r.data)])}

(***************************************************************************)
(* get_user_rank (main.py:322-380): one plus the number of users            *)
(* (GROUP BY user_id) whose aggregate exceeds the given user's.            *)
(***************************************************************************)
UserIds(S) == {r.user_id : r \in S}

\* ROUND(twenties * 100.0 / total, 2) over the rows G.  A division
\* by zero is NULL in SQLite: the value is <<>> for NULL and <<x>> for the number x.
LuckPercentage(G) ==
  IF Count(G) = 0 THEN <<>>
  ELSE <<Round2(100 * Count({r \in G : r.roll_value = 20}), Count(G))>>

\* x > y in SQL: a comparison with NULL is not true
SqlGreater(x, y) == x # <<>> /\ y # <<>> /\ x[1] > y[1]

\* The record get_user_rank returns; found is FALSE where the source returns None.
get_user_rank(table, user_id, category) ==
  LET All == RowSet(table)
      Twenties == {r \in All : r.roll_value = 20}
  IN  IF category = "total_rolls" THEN
        [found |-> TRUE,
         rank |-> Count({w \in UserIds(All) :
                           Count(UserRows(table, w)) > Count(UserRows(table, user_id))}) + 1]
      ELSE IF category = "natural_20s" THEN
        [found |-> TRUE,
         rank |-> Count({w \in UserIds(Twenties) :
                           Count({r \in Twenties : r.user_id = w})
                             > Count({r \in Twenties : r.user_id = user_id})}) + 1]
      ELSE IF category = "luckiest" THEN
        [found |-> TRUE,
         rank |-> Count({w \in UserIds(All) :
                           /\ Count(UserRows(table, w)) >= MinSample
                           /\ SqlGreater(LuckPercentage(UserRows(table, w)),
                                         LuckPercentage(UserRows(table, user_id)))}) + 1]
      ELSE [found |-> FALSE]

(***************************************************************************)
(* The command handlers.  Each returns the response the handler sends.  A  *)
(* store function called before init_database created the table raises    *)
(* sqlite3.OperationalError, which the handler does not catch.             *)
(***************************************************************************)
NoRequest == [cmd |-> "none"]
NoResponse == [kind |-> "none"]
Exception(name) == [kind |-> "exception", error |-> name]

\* color of the roll embed (main.py:572-581)
RollColor(roll_value) ==
  IF roll_value = 20 THEN "00ff00"
  ELSE IF roll_value = 1 THEN "ff0000"
  ELSE IF roll_value >= 15 THEN "ff8c00"
  ELSE IF roll_value <= 5 THEN "87ceeb"
  ELSE "7289da"

\* The response of roll (main.py:481-705) for the drawn roll_value and label and the
\* picked champion (None when names_list is empty), with the icon directory dir_files.
roll(roll_value, role_value, label, picked, dir_files) ==
  IF picked # None THEN
    [kind |-> "roll",
     roll_value |-> roll_value,
     low |-> Bucket(roll_value)[1],
     high |-> Bucket(roll_value)[2],
     scope |-> Scope(role_value),
     role |-> role_value,
     picked |-> picked,
     color |-> RollColor(roll_value),
     aggression |-> IF InfoTable[picked].found THEN <<InfoTable[picked].aggression>>
                    ELSE <<>>,
     icon_path |-> get_icon_path_for_champion(picked, dir_files),
     label |-> label]
  ELSE
    [kind |-> "roll_no_champion",
     roll_value |-> roll_value,
     low |-> Bucket(roll_value)[1],
     high |-> Bucket(roll_value)[2],
     scope |-> Scope(role_value),
     role |-> role_value,
     color |-> "808080",
     label |-> label]

\* the champions random.choice(names_list) may pick; None stands for the empty list
Picks(roll_value, role_value) ==
  IF Names(roll_value, role_value) = {} THEN {None} ELSE Names(roll_value, role_value)

\* a role table without the names gone
TableWithout(m, gone) == SelectSeq(m, LAMBDA p : p[1] \notin gone)

\* names (main.py:552-556) when the names gone are taken out of the role tables
NamesWithout(roll_value, role_value, gone) ==
  IF gone = {} THEN Names(roll_value, role_value)
  ELSE FilterNames([m \in 1..Len(Maps(role_value)) |->
                      TableWithout(Maps(role_value)[m], gone)],
                   Bucket(roll_value)[1], Bucket(roll_value)[2])

\* PicksWithout falling back to the tables of all roles when names_list is empty.
PicksWithoutFallback(roll_value, role_value, gone) ==
  IF NamesWithout(roll_value, role_value, gone) = {} THEN Names(roll_value, None)
  ELSE NamesWithout(roll_value, role_value, gone)

\* what random.choice(names_list) may pick from these names; None for the empty list
PicksWithout(roll_value, role_value, gone) ==
  IF NamesWithout(roll_value, role_value, gone) = {} THEN {None}
  ELSE NamesWithout(roll_value, role_value, gone)

\* color and footer of the stats embed (main.py:728-735, 799-806); the percentages
\* n / total * 100 are compared as fractions
StatsMood(stats_data) ==
  IF 100 * stats_data.natural_20s > 10 * stats_data.total_rolls THEN "very_lucky"
  ELSE IF 100 * stats_data.natural_20s > 5 * stats_data.total_rolls THEN "lucky"
  ELSE IF 100 * stats_data.natural_1s > 15 * stats_data.total_rolls THEN "unlucky"
  ELSE "average"

\* The divisors of the divisions stats evaluates, in order (main.py:724, 725, 758): each
\* division sits in a conditional expression and is evaluated only when its test holds.
StatsDivisors(stats_data) ==
  (IF stats_data.total_rolls > 0 THEN <<stats_data.total_rolls>> ELSE <<>>)
  \o (IF stats_data.total_rolls > 0 THEN <<stats_data.total_rolls>> ELSE <<>>)
  \o (IF stats_data.recent_rolls # <<>> THEN <<Len(stats_data.recent_rolls)>> ELSE <<>>)

\* StatsNoRolls never taking the early return.
StatsNoRollsNever(stats_data) == stats_data.total_rolls < 0

\* the test of the early return of stats (main.py:713)
StatsNoRolls(stats_data) == stats_data.total_rolls = 0

\* The response of stats (main.py:709-810) for the stats_data read from the store.
stats(stats_data) ==
  IF StatsNoRolls(stats_data) THEN [kind |-> "no_rolls"]
  ELSE IF \E i \in 1..Len(StatsDivisors(stats_data)) : StatsDivisors(stats_data)[i] = 0
    THEN Exception("ZeroDivisionError")
  ELSE
    [kind |-> "stats",
     total_rolls |-> stats_data.total_rolls,
     natural_20s |-> stats_data.natural_20s,
     natural_1s |-> stats_data.natural_1s,
     divisors |-> StatsDivisors(stats_data),
     mood |-> StatsMood(stats_data),
     recent_sum |-> SumRolls(RowSet(stats_data.recent_rolls)),
     high_rolls |-> Count({r \in RowSet(stats_data.recent_rolls) : r.roll_value >= 15}),
     low_rolls |-> Count({r \in RowSet(stats_data.recent_rolls) : r.roll_value <= 5}),
     recent |-> [i \in 1..Len(Limit(stats_data.recent_rolls, 5)) |->
                   LET r == stats_data.recent_rolls[i]
                   IN  <<r.roll_value, r.role, r.champion>>]]

\* InvalidLimit accepting the limit 0.
InvalidLimitZeroOk(limit) == limit < 0 \/ limit > 25

\* the test of the limit check of leaderboard (main.py:831)
InvalidLimit(limit) == limit < 1 \/ limit > 25

\* The response of leaderboard (main.py:828-945) for the list leaderboard_data that
\* get_leaderboard_data returned; queries counts the store functions called.
leaderboard(table, user_id, category, limit, leaderboard_data) ==
  IF InvalidLimit(limit) THEN [kind |-> "invalid_limit", queries |-> 0]
  ELSE IF leaderboard_data = <<>> THEN
    [kind |-> "no_data", category |-> category, queries |-> 1]
  ELSE
    [kind |-> "leaderboard",
     category |-> category,
     entries |-> leaderboard_data,
     user_rank |-> get_user_rank(table, user_id, category),
     queries |-> 2]

\* a in b, for two spellings (Python's substring test)
IsSubstring(a, b) ==
  \E i \in 0..(Len(b) - Len(a)) : SubSeq(b, i + 1, i + Len(a)) = a

\* similar (main.py:985-989), before it is sorted and cut
Similar(champion_name) ==
  {all_champions[i][1] : i \in {j \in 1..Len(all_champions) :
      \/ IsSubstring(Lower(champion_name), LoweredKeys[j])
      \/ IsSubstring(LoweredKeys[j], Lower(champion_name))}}

\* color of the champion embed (main.py:1015-1027)
ChampionColor(aggression) ==
  IF aggression = 1 THEN "808080"
  ELSE IF 2 <= aggression /\ aggression <= 4 THEN "87ceeb"
  ELSE IF 5 <= aggression /\ aggression <= 9 THEN "ffff00"
  ELSE IF 10 <= aggression /\ aggression <= 14 THEN "ff8c00"
  ELSE IF 15 <= aggression /\ aggression <= 19 THEN "ff4500"
  ELSE "ff0000"

\* tier of the champion embed (main.py:1082-1096)
ChampionTier(aggression) ==
  IF aggression >= 18 THEN "Legendary"
  ELSE IF aggression >= 15 THEN "Epic"
  ELSE IF aggression >= 10 THEN "Rare"
  ELSE IF aggression >= 5 THEN "Common"
  ELSE "Basic"

\* the spellings of the merged keys
KeyChars == [i \in 1..Len(all_champions) |-> Chars(all_champions[i][1])]

\* the number of merged keys that sort before the i-th
KeyRank ==
  [i \in 1..Len(all_champions) |->
     Cardinality({j \in 1..Len(all_champions) : StrLess(KeyChars[j], KeyChars[i])})]

\* the merged keys in the order sorted() gives them, computed once
SortedKeys ==
  [r \in 1..Len(all_champions) |->
     all_champions[CHOOSE i \in 1..Len(all_champions) : KeyRank[i] = r - 1][1]]

\* sorted(similar)
Sorted(similar) == SelectSeq(SortedKeys, LAMBDA k : k \in similar)

\* Suggestions listing every similar name.
SuggestionsUncut(similar) == Sorted(similar)

\* sorted(similar)[:5] (main.py:998)
Suggestions(similar) == Limit(Sorted(similar), 5)

\* The response of champion (main.py:971-1209) with the icon directory dir_files and the
\* names gone taken out of the role tables.  The not-found response carries the field
\* "Did you mean" (suggestions) or the field "Tip" (tip).
champion(champion_name, dir_files, gone) ==
  LET champion_info == get_champion_info(champion_name)
      similar == Similar(champion_name) \ gone
  IN  IF ~champion_info.found \/ ChampionKey(champion_name) \in gone THEN
        [kind |-> "champion_not_found",
         similar |-> similar,
         suggestions |-> IF similar # {} THEN Suggestions(similar) ELSE <<>>,
         tip |-> similar = {}]
      ELSE
        [kind |-> "champion",
         info |-> champion_info,
         icon_path |-> get_icon_path_for_champion(champion_info.name, dir_files),
         color |-> ChampionColor(champion_info.aggression),
         tier |-> ChampionTier(champion_info.aggression)]
(***************************************************************************)
(* Startup (main.py:75-106, 1212-1236).  The value of DISCORD_TOKEN is the *)
(* sequence of its characters; an unset variable reads as the empty        *)
(* string (os.getenv("DISCORD_TOKEN", "")).                                *)
(***************************************************************************)
Digits == {"0", "1", "2", "3", "4", "5", "6", "7", "8", "9"}

\* the characters str.strip() removes
Whitespace == {" ", "\t", "\n", "\r"}

\* s.lstrip(C) and s.rstrip(C) for a set C of characters
RECURSIVE LStrip(_, _)
LStrip(s, C) == IF s # <<>> /\ s[1] \in C THEN LStrip(Tail(s), C) ELSE s

RECURSIVE RStrip(_, _)
RStrip(s, C) ==
  IF s # <<>> /\ s[Len(s)] \in C THEN RStrip(SubSeq(s, 1, Len(s) - 1), C) ELSE s

\* s.strip(C)
Strip(s, C) == RStrip(LStrip(s, C), C)

\* the character class [A-Za-z0-9_\-] of the pattern (main.py:76)
IsTokenChar(c) == IsLetter(c) \/ c \in Digits \/ c \in {"_", "-"}

\* the least lengths {20,}, {5,}, {10,} of the three segments of the pattern
SegmentMinima == <<20, 5, 10>>

\* the pattern between ^ and $ matches the whole of s: three runs of token characters
\* of the least lengths, separated by two full stops
FullMatch(s) ==
  \E p, q \in 1..Len(s) :
    /\ p < q
    /\ s[p] = "." /\ s[q] = "."
    /\ \A i \in 1..Len(s) : i \notin {p, q} => IsTokenChar(s[i])
    /\ p - 1 >= SegmentMinima[1]
    /\ q - p - 1 >= SegmentMinima[2]
    /\ Len(s) - q >= SegmentMinima[3]

\* _is_likely_discord_token (main.py:75-77): re.match with ^...$, where $ matches at the
\* end of the string and also just before a newline that ends the string
is_likely_discord_token(s) ==
  \/ FullMatch(s)
  \/ s # <<>> /\ s[Len(s)] = "\n" /\ FullMatch(SubSeq(s, 1, Len(s) - 1))

\* token after main.py:81-85: stripped of white space and quotes, and of a "Bot " prefix
CleanToken(env) ==
  LET token == Strip(Strip(Strip(env, Whitespace), {"\""}), {"'"})
  IN  IF Len(token) >= 4 /\ Lower(SubSeq(token, 1, 4)) = <<"b", "o", "t", " ">>
        THEN Strip(SubSeq(token, 5, Len(token)), Whitespace)
        ELSE token

\* get_token returning whatever is not empty.
get_token_unchecked(env) ==
  IF CleanToken(env) = <<>>
    THEN [exit |-> TRUE, status |-> 1, stderr |-> "not_set", token |-> <<>>]
    ELSE [exit |-> FALSE, status |-> 0, stderr |-> "none", token |-> CleanToken(env)]

\* get_token (main.py:80-106): sys.exit(1) with a diagnostic, or the token returned
get_token(env) ==
  IF CleanToken(env) = <<>>
    THEN [exit |-> TRUE, status |-> 1, stderr |-> "not_set", token |-> <<>>]
  ELSE IF ~is_likely_discord_token(CleanToken(env))
    THEN [exit |-> TRUE, status |-> 1, stderr |-> "invalid", token |-> <<>>]
  ELSE [exit |-> FALSE, status |-> 0, stderr |-> "none", token |-> CleanToken(env)]

\* on_ready_calls with the sync before init_database.
on_ready_calls_sync_first == <<"sync", "init_database">>

\* the calls of the try block of on_ready, in order (main.py:1216-1217)
on_ready_calls == <<"init_database", "sync">>

\* The calls of on_ready that return before the call named failing raises; all of them
\* when failing is None.
CallsDone(failing) ==
  IF \E i \in 1..Len(on_ready_calls) : on_ready_calls[i] = failing
    THEN SubSeq(on_ready_calls, 1,
                (CHOOSE i \in 1..Len(on_ready_calls) : on_ready_calls[i] = failing) - 1)
    ELSE on_ready_calls

\* on_ready (main.py:1212-1221) when the call named failing raises (None: no call does):
\* whether init_database has run and what is printed to stderr.  The handler catches
\* Exception and returns.
on_ready(failing) ==
  [initialized |-> \E i \in 1..Len(CallsDone(failing)) :
                     CallsDone(failing)[i] = "init_database",
   stderr |-> IF failing = None THEN "none" ELSE "sync_warning",
   raised |-> failing]

\* the process before __main__ runs, with the value env of DISCORD_TOKEN
Started(env) ==
  [phase |-> "main", env |-> env, token |-> <<>>, status |-> <<>>, stderr |-> "none",
   ready |-> "never"]

\* the process once the platform accepted the login with token
Running(token) ==
  [phase |-> "running", env |-> token, token |-> token, status |-> <<>>,
   stderr |-> "none", ready |-> "never"]
(***************************************************************************)
(* Store connections.  Each store function opens a connection with         *)
(* sqlite3.connect and closes it with conn.close(); a statement on the     *)
(* missing table raises before the close is reached.  The operators give   *)
(* the connect and close calls of one call of the function, in order.      *)
(***************************************************************************)
\* init_database (main.py:150, 167); CREATE TABLE IF NOT EXISTS does not fail
init_database_conn == <<"connect", "close">>

\* log_roll (main.py:171, 180)
log_roll_conn(table_exists) ==
  IF table_exists THEN <<"connect", "close">> ELSE <<"connect">>

\* get_user_stats (main.py:184, 209)
get_user_stats_conn(table_exists) ==
  IF table_exists THEN <<"connect", "close">> ELSE <<"connect">>

\* get_leaderboard_data returning from the else branch without closing.
get_leaderboard_data_conn_leak(table_exists, category) ==
  IF category \notin KnownCategories THEN <<"connect">>
  ELSE IF table_exists THEN <<"connect", "close">>
  ELSE <<"connect">>

\* get_leaderboard_data (main.py:220, 303, 307): the else branch runs no statement
get_leaderboard_data_conn(table_exists, category) ==
  IF category \notin KnownCategories THEN <<"connect", "close">>
  ELSE IF table_exists THEN <<"connect", "close">>
  ELSE <<"connect">>

\* the categories get_user_rank has a query for (main.py:327-370)
RankCategories == {"total_rolls", "natural_20s", "luckiest"}

\* get_user_rank (main.py:324, 372, 376)
get_user_rank_conn(table_exists, category) ==
  IF category \notin RankCategories THEN <<"connect", "close">>
  ELSE IF table_exists THEN <<"connect", "close">>
  ELSE <<"connect">>

\* connections opened and not closed by a sequence of connect and close calls
StillOpen(events) ==
  Cardinality({i \in 1..Len(events) : events[i] = "connect"})
    - Cardinality({i \in 1..Len(events) : events[i] = "close"})

(***************************************************************************)
(* send_message calls.  A handler is a sequence of blocks; a block is      *)
(* entered when its test holds and no block entered before it returned.    *)
(***************************************************************************)
Block(taken, sends, returns) == [taken |-> taken, sends |-> sends, returns |-> returns]

\* the blocks of a handler that are entered
Entered(blocks) ==
  {i \in 1..Len(blocks) :
     /\ blocks[i].taken
     /\ \A j \in 1..(i - 1) : ~(blocks[j].taken /\ blocks[j].returns)}

RECURSIVE SumSends(_, _)
SumSends(blocks, S) ==
  IF S = {} THEN 0
  ELSE LET i == CHOOSE j \in S : TRUE
       IN  blocks[i].sends + SumSends(blocks, S \ {i})

\* send_message calls of one run through the blocks
Sends(blocks) == SumSends(blocks, Entered(blocks))

\* roll (main.py:558, 651-658, 659, 705)
roll_blocks(picked, icon_path) ==
  <<Block(picked # None /\ icon_path # <<>>, 1, TRUE),
    Block(picked # None /\ icon_path = <<>>, 1, TRUE),
    Block(picked = None, 1, FALSE)>>

\* stats (main.py:713-721, 810)
stats_blocks(stats_data) ==
  <<Block(StatsNoRolls(stats_data), 1, TRUE),
    Block(TRUE, 1, FALSE)>>

\* leaderboard_blocks with the return of the limit check missing.
leaderboard_blocks_no_return(limit, leaderboard_data) ==
  <<Block(InvalidLimit(limit), 1, FALSE),
    Block(leaderboard_data = <<>>, 1, TRUE),
    Block(TRUE, 1, FALSE)>>

\* leaderboard (main.py:831-838, 843-850, 945)
leaderboard_blocks(limit, leaderboard_data) ==
  <<Block(InvalidLimit(limit), 1, TRUE),
    Block(leaderboard_data = <<>>, 1, TRUE),
    Block(TRUE, 1, FALSE)>>

\* champion (main.py:975-1012, 1205-1209)
champion_blocks(found, icon_path) ==
  <<Block(~found, 1, TRUE),
    Block(icon_path # <<>>, 1, FALSE),
    Block(icon_path = <<>>, 1, FALSE)>>
(***************************************************************************)
(* Actions.  __main__ reads the token (GetToken) and logs in (ClientRun).  *)
(* Once the process runs, the platform delivers one interaction (Receive)  *)
(* and the handler of its command runs to its send_message in one step.    *)
(* on_ready (OnReady) and the clock (Tick) may step at any time.           *)
(***************************************************************************)
\* the handler of command cmd has been invoked and has not answered yet
Pending(cmd) == request.cmd = cmd /\ response = NoResponse

\* __main__ evaluates get_token() (main.py:1228): the process exits, or calls client.run
GetToken ==
  /\ process.phase = "main"
  /\ process' =
       IF get_token(process.env).exit
         THEN [process EXCEPT !.phase = "exited",
                              !.status = <<get_token(process.env).status>>,
                              !.stderr = get_token(process.env).stderr]
         ELSE [process EXCEPT !.phase = "login", !.token = get_token(process.env).token]
  /\ UNCHANGED <<storeVars, request, response, rollsCompleted, sent, openConns,
                 removed, files>>

\* client.run(token) (main.py:1227-1236): the platform accepts the login, or rejects it
\* with LoginFailure and the process exits with status 1
ClientRun ==
  /\ process.phase = "login"
  /\ \E accepted \in BOOLEAN :
       process' =
         IF accepted THEN [process EXCEPT !.phase = "running"]
         ELSE [process EXCEPT !.phase = "exited", !.status = <<1>>,
                              !.stderr = "login_failed"]
  /\ UNCHANGED <<storeVars, request, response, rollsCompleted, sent, openConns,
                 removed, files>>

\* The platform dispatches the interaction req to its handler.  The store holds at most
\* MaxRows rows, so no roll is dispatched to a full store.
Receive(req) ==
  /\ process.phase = "running"
  /\ request = NoRequest \/ response # NoResponse
  /\ req.cmd = "roll" => Len(rows) < MaxRows
  /\ request' = req
  /\ response' = NoResponse
  /\ sent' = 0
  /\ openConns' = 0
  /\ UNCHANGED <<storeVars, rollsCompleted, envVars>>

\* the store part of on_ready: init_database (main.py:148-167)
InitDatabase ==
  /\ tableExists' = TRUE
  /\ rows' = init_database(rows)

\* on_ready (main.py:1212-1221), which runs at every (re)connect, when the call named
\* failing raises (None: no call does).  init_database closes the connection it opens.
OnReadyFrom(Failing) ==
  /\ process.phase = "running"
  /\ \E failing \in Failing :
       /\ IF on_ready(failing).initialized
            THEN InitDatabase
            ELSE UNCHANGED <<tableExists, rows>>
       /\ process' = [process EXCEPT !.stderr = on_ready(failing).stderr,
                                     !.ready = on_ready(failing).raised]
  /\ UNCHANGED <<now, request, response, rollsCompleted, sent, openConns, removed, files>>

OnReady == OnReadyFrom({None, "init_database", "sync"})

\* The clock of the store advances by one tick.
Tick ==
  /\ now < MaxNow
  /\ now' = now + 1
  /\ UNCHANGED <<tableExists, rows, request, response, rollsCompleted, sent, openConns,
                 envVars>>

\* roll (main.py:481-705) with random.randint drawing from Die: the handler draws the
\* value and the label, picks the champion, logs the roll and sends the response.
RollFrom(Die) ==
  /\ Pending("roll")
  /\ \E roll_value \in Die :
       \E l \in 1..Len(Labels(roll_value)) :
         \E picked \in PicksWithout(roll_value, request.role, removed) :
           IF tableExists
             THEN /\ rows' = log_roll(rows, now, request.user_id, request.username,
                                      roll_value, request.role, picked)
                  /\ response' = roll(roll_value, request.role, Labels(roll_value)[l],
                                      picked, files)
                  /\ rollsCompleted' = rollsCompleted + 1
                  /\ sent' = Sends(roll_blocks(picked,
                                     IF picked = None THEN <<>>
                                     ELSE get_icon_path_for_champion(picked, files)))
             ELSE /\ response' = Exception("OperationalError")
                  /\ sent' = 0
                  /\ UNCHANGED <<rows, rollsCompleted>>
  /\ openConns' = StillOpen(log_roll_conn(tableExists))
  /\ UNCHANGED <<tableExists, now, request, envVars>>

Roll == RollFrom(DieFaces)

\* stats (main.py:709-810)
Stats ==
  /\ Pending("stats")
  /\ IF tableExists
       THEN \E recent_rolls \in RecentRolls(rows, request.user_id) :
              /\ response' = stats(get_user_stats(rows, request.user_id, recent_rolls))
              /\ sent' = IF response'.kind = "exception" THEN 0
                         ELSE Sends(stats_blocks(
                                get_user_stats(rows, request.user_id, recent_rolls)))
       ELSE /\ response' = Exception("OperationalError")
            /\ sent' = 0
  /\ openConns' = StillOpen(get_user_stats_conn(tableExists))
  /\ UNCHANGED <<storeVars, request, rollsCompleted, envVars>>

\* The body of leaderboard (main.py:828-945) called with category and limit.
LeaderboardCallback(category, limit) ==
  /\ IF InvalidLimit(limit) THEN
       /\ response' = leaderboard(rows, request.user_id, category, limit, <<>>)
       /\ sent' = Sends(leaderboard_blocks(limit, <<>>))
       /\ openConns' = 0
     ELSE IF ~tableExists THEN
       /\ response' = Exception("OperationalError")
       /\ sent' = 0
       /\ openConns' = StillOpen(get_leaderboard_data_conn(tableExists, category))
     ELSE
       \E leaderboard_data \in get_leaderboard_data(rows, now, category, limit) :
         /\ response' = leaderboard(rows, request.user_id, category, limit,
                                    leaderboard_data)
         /\ sent' = Sends(leaderboard_blocks(limit, leaderboard_data))
         /\ openConns' =
              StillOpen(get_leaderboard_data_conn(tableExists, category)
                          \o (IF leaderboard_data = <<>> THEN <<>>
                              ELSE get_user_rank_conn(tableExists, category)))
  /\ UNCHANGED <<storeVars, request, rollsCompleted, envVars>>

\* leaderboard
Leaderboard == Pending("leaderboard") /\ LeaderboardCallback(request.category, request.limit)

\* lb passing a limit that was given only when it is in range, and its default otherwise.
LbArgsClamped(req) ==
  [category |-> req.category, limit |-> IF InvalidLimit(req.limit) THEN 10 ELSE req.limit]

\* the arguments lb passes to leaderboard.callback (main.py:966)
LbArgs(req) == [category |-> req.category, limit |-> req.limit]

\* lb (main.py:963-966)
Lb ==
  /\ Pending("lb")
  /\ LeaderboardCallback(LbArgs(request).category, LbArgs(request).limit)

\* champion (main.py:971-1209)
Champion ==
  /\ Pending("champion")
  /\ response' = champion(request.champion_name, files, removed)
  /\ sent' = Sends(champion_blocks(response'.kind = "champion",
                                   IF response'.kind = "champion"
                                     THEN response'.icon_path ELSE <<>>))
  /\ openConns' = 0
  /\ UNCHANGED <<storeVars, request, rollsCompleted, envVars>>

\* One call of a store function with the arguments of the request (main.py:148-380).
Call ==
  /\ Pending("call")
  /\ sent' = 0
  /\ IF request.fn = "init_database" THEN
       /\ InitDatabase
       /\ response' = [kind |-> "returned", value |-> None]
       /\ openConns' = StillOpen(init_database_conn)
     ELSE IF request.fn = "log_roll" THEN
       /\ rows' = IF tableExists
                    THEN log_roll(rows, now, request.user_id, request.username, 20,
                                  None, None)
                    ELSE rows
       /\ response' = IF tableExists THEN [kind |-> "returned", value |-> None]
                      ELSE Exception("OperationalError")
       /\ openConns' = StillOpen(log_roll_conn(tableExists))
       /\ UNCHANGED tableExists
     ELSE IF request.fn = "get_user_stats" THEN
       /\ \E recent_rolls \in RecentRolls(rows, request.user_id) :
            response' = IF tableExists
                          THEN [kind |-> "returned",
                                value |-> get_user_stats(rows, request.user_id,
                                                         recent_rolls)]
                          ELSE Exception("OperationalError")
       /\ openConns' = StillOpen(get_user_stats_conn(tableExists))
       /\ UNCHANGED <<tableExists, rows>>
     ELSE IF request.fn = "get_leaderboard_data" THEN
       /\ \E leaderboard_data \in
              get_leaderboard_data(rows, now, request.category, request.limit) :
            response' = IF tableExists \/ request.category \notin KnownCategories
                          THEN [kind |-> "returned", value |-> leaderboard_data]
                          ELSE Exception("OperationalError")
       /\ openConns' = StillOpen(get_leaderboard_data_conn(tableExists, request.category))
       /\ UNCHANGED <<tableExists, rows>>
     ELSE
       /\ response' = IF tableExists \/ request.category \notin RankCategories
                        THEN [kind |-> "returned",
                              value |-> get_user_rank(rows, request.user_id,
                                                      request.category)]
                        ELSE Exception("OperationalError")
       /\ openConns' = StillOpen(get_user_rank_conn(tableExists, request.category))
       /\ UNCHANGED <<tableExists, rows>>
  /\ UNCHANGED <<now, request, rollsCompleted, envVars>>
(***************************************************************************)
(* Spec: the whole bot from a fresh deployment.  To keep long histories    *)
(* tractable the interactions come from samples of the command arguments   *)
(* and the die of roll is restricted to its two extreme faces.             *)
(***************************************************************************)
\* one display name per user
MainName(u) == IF u = 1 THEN "ann" ELSE "bob"
\* faces of the die in Spec
DieSample == {1, 20}
\* role arguments in Spec
RoleSample == {"top"}
\* categories and limits in Spec
CategorySample == {"total_rolls", "luckiest", "most_active_today"}
LimitSample == {0, 1, 25, 26}
\* champion names typed in Spec
QuerySample == {<<"t", "e", "e", "m", "o">>, <<"K", "l", "e", "d">>, <<"m", "o">>, <<"x">>}

RollRequests(names, RoleSet) ==
  {[cmd |-> "roll", user_id |-> u, username |-> n, role |-> r] :
     <<u, n, r>> \in {t \in Users \X {"ann", "anna", "bob"} \X RoleSet : t[2] \in names[t[1]]}}

StatsRequests ==
  {[cmd |-> "stats", user_id |-> u, username |-> MainName(u)] : u \in Users}

LeaderboardRequests(Cmds, Cats, Limits) ==
  {[cmd |-> c, user_id |-> u, username |-> MainName(u), category |-> cat, limit |-> l] :
     <<c, u, cat, l>> \in Cmds \X Users \X Cats \X Limits}

ChampionRequests(Queries) ==
  {[cmd |-> "champion", user_id |-> 1, username |-> MainName(1), champion_name |-> q] :
     q \in Queries}

MainRequests ==
  RollRequests([u \in Users |-> {MainName(u)}], RoleSample)
    \cup StatsRequests
    \cup LeaderboardRequests({"leaderboard", "lb"}, CategorySample, LimitSample)
    \cup ChampionRequests(QuerySample)

\* a run of n characters c
Run(n, c) == [i \in 1..n |-> c]

\* a token of three segments of the lengths a, b and c
TokenOf(a, b, c) == Run(a, "a") \o <<".">> \o Run(b, "B") \o <<".">> \o Run(c, "7")

\* a token of the least lengths the pattern accepts
ValidToken == TokenOf(SegmentMinima[1], SegmentMinima[2], SegmentMinima[3])

\* values of DISCORD_TOKEN in Spec: a token, and the variable unset
EnvSample == {ValidToken, <<>>}

\* the calls of on_ready that may raise in Spec
FailingSample == {None, "sync"}

\* no interaction yet, on the tables as shipped, without icon files
Quiet ==
  /\ sent = 0
  /\ openConns = 0
  /\ removed = {}
  /\ files = {}

Init ==
  /\ tableExists = FALSE
  /\ rows = <<>>
  /\ now = 0
  /\ request = NoRequest
  /\ response = NoResponse
  /\ rollsCompleted = 0
  /\ Quiet
  /\ \E env \in EnvSample : process = Started(env)

Dispatch == \E req \in MainRequests : Receive(req)

RollSampled == RollFrom(DieSample)

OnReadySampled == OnReadyFrom(FailingSample)

Next ==
  \/ GetToken
  \/ ClientRun
  \/ OnReadySampled
  \/ Tick
  \/ Dispatch
  \/ RollSampled
  \/ Stats
  \/ Leaderboard
  \/ Lb
  \/ Champion

Spec == Init /\ [][Next]_vars

(***************************************************************************)
(* Stores drawn for the specifications that apply one handler to a given   *)
(* store.  Every drawn store is the table after a run of roll invocations  *)
(* with role top: a roll of 20 picks Kled and a roll of 1 picks Teemo,     *)
(* the only names of their buckets in TOP_LANE_CHAMPIONS.                  *)
(***************************************************************************)
DrawnRole == "top"

\* the table after n more rolls of value v by user u under the name n_
RECURSIVE LogRolls(_, _, _, _, _, _)
LogRolls(table, clock, u, name, v, n) ==
  IF n = 0 THEN table
  ELSE LogRolls(log_roll(table, clock, u, name, v, DrawnRole,
                         CHOOSE p \in Picks(v, DrawnRole) : TRUE),
                clock, u, name, v, n - 1)

\* User 1 rolls k1 twenties and o1 ones as "ann" and kr twenties as "anna" at tick 0;
\* user 2 rolls k2 twenties and o2 ones at tick gap.
DrawnStore(k1, o1, kr, k2, o2, gap) ==
  LogRolls(LogRolls(LogRolls(LogRolls(LogRolls(<<>>,
    0, 1, "ann", 20, k1), 0, 1, "ann", 1, o1), 0, 1, "anna", 20, kr),
    gap, 2, "bob", 20, k2), gap, 2, "bob", 1, o2)

\* the clock values at which user 2 rolls: the same day, the next day, after a week
Gaps == {0, TicksPerDay, (WeekDays + 1) * TicksPerDay}

\* <<store, clock>> pairs
DrawnStores ==
  {<<DrawnStore(c[1], c[2], c[3], c[4], c[5], c[6]), c[6]>> :
     c \in {d \in (0..MaxPerGroup) \X (0..MaxPerGroup) \X (0..MaxRenamed)
                  \X (0..MaxPerGroup) \X (0..MaxPerGroup) \X Gaps :
              d[1] + d[2] <= MaxPerGroup /\ d[4] + d[5] <= MaxPerGroup}}

\* the state in which the interaction req meets the store and clock of sc, in a running
\* process, with the icon directory dir_files and the names gone out of the role tables
GivenIn(sc, req, dir_files, gone) ==
  /\ tableExists = TRUE
  /\ rows = sc[1]
  /\ now = sc[2]
  /\ request = req
  /\ response = NoResponse
  /\ rollsCompleted = Len(sc[1])
  /\ sent = 0
  /\ openConns = 0
  /\ removed = gone
  /\ files = dir_files
  /\ process = Running(ValidToken)

\* the same on the tables as shipped, without icon files
Given(sc, req) == GivenIn(sc, req, {}, {})

(***************************************************************************)
(* SpecRoll: one roll invocation with the full die, every role argument    *)
(* and every user, on a store that has room for one more row.              *)
(***************************************************************************)
PriorStores ==
  {<<LogRolls(<<>>, 0, u, MainName(u), v, MaxRows - 1), 0>> : <<u, v>> \in Users \X DieSample}

InitRoll ==
  \E sc \in PriorStores, req \in RollRequests([u \in Users |-> UserNames(u)], RoleArgs) : Given(sc, req)

NextRoll == Roll

SpecRoll == InitRoll /\ [][NextRoll]_vars

(***************************************************************************)
(* SpecStore: one leaderboard invocation on a drawn store.                 *)
(***************************************************************************)
StoreLimits == {1, 2, 25}

InitStore ==
  \E sc \in DrawnStores, req \in LeaderboardRequests({"leaderboard"}, Categories, StoreLimits) :
    Given(sc, req)

NextStore == Leaderboard

SpecStore == InitStore /\ [][NextStore]_vars

(***************************************************************************)
(* SpecLimit: one leaderboard or lb invocation with any limit near the     *)
(* accepted range, on a store of at most two rows per user.                *)
(***************************************************************************)
LimitArgs == (0 - 2)..28

SmallStores ==
  {<<DrawnStore(k1, 0, 0, k2, 0, 0), 0>> : <<k1, k2>> \in (0..2) \X (0..2)}

\* the state in which the interaction req arrives before init_database has run
Fresh(req) ==
  /\ tableExists = FALSE
  /\ rows = <<>>
  /\ now = 0
  /\ request = req
  /\ response = NoResponse
  /\ rollsCompleted = 0
  /\ Quiet
  /\ process = Running(ValidToken)

InitLimit ==
  \E req \in LeaderboardRequests({"leaderboard", "lb"}, Categories, LimitArgs) :
    \/ \E sc \in SmallStores : Given(sc, req)
    \/ Fresh(req)

NextLimit == Leaderboard \/ Lb

SpecLimit == InitLimit /\ [][NextLimit]_vars

(***************************************************************************)
(* SpecLookup: one champion invocation for a case variant of a table key.  *)
(***************************************************************************)
\* the spelling s with the case of the letters at the positions F flipped
FlipCase(s, F) ==
  [i \in 1..Len(s) |->
     IF i \in F THEN (IF IsUpper(s[i]) THEN LowerChar(s[i]) ELSE UpperChar(s[i])) ELSE s[i]]

\* case variants of a table key: all lower, all upper, and every flip among its first
\* MaxFlip characters
CaseVariants(name) ==
  {Lower(Chars(name)), Upper(Chars(name))}
    \cup {FlipCase(Chars(name), F) : F \in SUBSET (1..MaxFlip)}

\* the case variants of every table key, computed once
VariantTable == [k \in KeySet(all_champions) |-> CaseVariants(k)]

LookupQueries == UNION {VariantTable[k] : k \in KeySet(all_champions)}

InitLookup ==
  \E req \in ChampionRequests(LookupQueries) : Given(<<<<>>, 0>>, req)

NextLookup == Champion

SpecLookup == InitLookup /\ [][NextLookup]_vars


(***************************************************************************)
(* SpecStartup: the process from __main__ on, for values of DISCORD_TOKEN  *)
(* around the three cases of get_token, with every outcome of the login    *)
(* and of on_ready, and /stats as the command of a running process.        *)
(***************************************************************************)
\* the segment lengths at and one below the least lengths, some other bodies
TokenBodies ==
  {TokenOf(SegmentMinima[1] - a, SegmentMinima[2] - b, SegmentMinima[3] - c) :
     <<a, b, c>> \in {0, 1} \X {0, 1} \X {0, 1}}
    \cup {<<>>,
          Run(20, "a") \o <<".">> \o Run(15, "B"),
          ValidToken \o <<".">> \o Run(10, "7"),
          Run(19, "a") \o <<"!", ".">> \o Run(5, "B") \o <<".">> \o Run(10, "7"),
          Run(19, "_") \o <<"-", ".">> \o Run(5, "0") \o <<".">> \o Run(10, "z"),
          ValidToken \o <<"\n">>,
          ValidToken \o <<"\n", "\n">>}

\* what a user may put before the token
TokenPrefixes == {<<>>, <<"B", "o", "t", " ">>, <<"b", "o", "t", " ", " ">>, <<"B", "o", "t">>}

\* s in the quotes of q (<<>>: none), with the white space of w around it
Quoted(s, q, w) == w \o q \o s \o q \o w

TokenSamples ==
  {Quoted(pre \o body, q, w) :
     <<pre, body, q, w>> \in TokenPrefixes \X TokenBodies
                              \X {<<>>, <<"\"">>, <<"'">>} \X {<<>>, <<" ">>}}

InitStartup ==
  /\ tableExists = FALSE
  /\ rows = <<>>
  /\ now = 0
  /\ request = NoRequest
  /\ response = NoResponse
  /\ rollsCompleted = 0
  /\ Quiet
  /\ \E env \in TokenSamples : process = Started(env)

DispatchStats == \E req \in {r \in StatsRequests : r.user_id = 1} : Receive(req)

NextStartup == GetToken \/ ClientRun \/ OnReady \/ DispatchStats \/ Stats

SpecStartup == InitStartup /\ [][NextStartup]_vars

(***************************************************************************)
(* SpecEmpty: one roll invocation when a whole bucket of names has been    *)
(* taken out of the role tables, so that names_list may be empty.          *)
(***************************************************************************)
\* nothing, or all names of the bucket of 1 or of 20 of one scope
RemovedSets == {{}} \cup {Names(v, r) : <<v, r>> \in DieSample \X RoleArgs}

\* a store of one user's rolls with room for one more row
EmptyStores == {sc \in PriorStores : sc[1] = LogRolls(<<>>, 0, 1, MainName(1), 20, MaxRows - 1)}

InitEmpty ==
  \E sc \in EmptyStores, req \in RollRequests([u \in Users |-> {MainName(u)}], RoleArgs),
     gone \in RemovedSets :
    GivenIn(sc, req, {}, gone)

NextEmpty == Roll

SpecEmpty == InitEmpty /\ [][NextEmpty]_vars

(***************************************************************************)
(* SpecIcon: one champion invocation for a table key, with any set of the  *)
(* candidate file names of some keys in the icon directory.                *)
(***************************************************************************)
\* keys with an override that differs from the derived name, with one that equals it,
\* and without override
IconNames == {"Wukong", "LeBlanc", "Nunu & Willump", "Kog'Maw", "Teemo"}

IconFiles == UNION {{Candidates(n)[i] : i \in 1..Len(Candidates(n))} : n \in IconNames}

InitIcon ==
  \E req \in ChampionRequests({Chars(n) : n \in IconNames}), dir_files \in SUBSET IconFiles :
    GivenIn(<<<<>>, 0>>, req, dir_files, {})

NextIcon == Champion

SpecIcon == InitIcon /\ [][NextIcon]_vars

(***************************************************************************)
(* SpecNotFound: one champion invocation for a short query, or for a table *)
(* key with a letter appended.                                             *)
(***************************************************************************)
\* every string of one or two lower-case letters, and every key followed by "s"
ShortQueries ==
  {<<LowerLetters[i]>> : i \in 1..26}
    \cup {<<LowerLetters[i], LowerLetters[j]>> : <<i, j>> \in (1..26) \X (1..26)}
    \cup {Chars(k) \o <<"s">> : k \in KeySet(all_champions)}

InitNotFound ==
  \E req \in ChampionRequests(ShortQueries) : Given(<<<<>>, 0>>, req)

NextNotFound == Champion

SpecNotFound == InitNotFound /\ [][NextNotFound]_vars

(***************************************************************************)
(* SpecOnce: one invocation of any command handler, or one call of a store *)
(* function, on a small store or before the table exists, with and without *)
(* icon files.                                                             *)
(***************************************************************************)
\* a category none of the store functions knows
UnknownCategory == "bogus"

CallRequests ==
  {[cmd |-> "call", fn |-> f, user_id |-> u, username |-> MainName(u), category |-> c,
    limit |-> 2] :
     <<f, u, c>> \in {"get_leaderboard_data", "get_user_rank"} \X Users
                       \X (Categories \cup {UnknownCategory})}
    \cup {[cmd |-> "call", fn |-> f, user_id |-> u, username |-> MainName(u)] :
            <<f, u>> \in {"init_database", "log_roll", "get_user_stats"} \X Users}

OnceRequests ==
  CallRequests
    \cup RollRequests([u \in Users |-> {MainName(u)}], RoleArgs)
    \cup StatsRequests
    \cup LeaderboardRequests({"leaderboard", "lb"}, Categories, LimitSample)
    \cup ChampionRequests(QuerySample)

\* no icon file, or the icon files of the override table and of Kled and Teemo
IconDirs ==
  {{}, {FileChars(ICON_OVERRIDES[i][2]) : i \in 1..Len(ICON_OVERRIDES)}
         \cup {default_icon_filename("Kled"), default_icon_filename("Teemo")}}

InitOnce ==
  \E req \in OnceRequests, dir_files \in IconDirs :
    \/ \E sc \in SmallStores : GivenIn(sc, req, dir_files, {})
    \/ Fresh(req) /\ dir_files = {}

NextOnce == Call \/ Roll \/ Stats \/ Leaderboard \/ Lb \/ Champion

SpecOnce == InitOnce /\ [][NextOnce]_vars
(***************************************************************************)
(* Properties.                                                             *)
(***************************************************************************)
\* the six inclusive ranges of the roll buckets
Ranges == {<<1, 1>>, <<2, 4>>, <<5, 9>>, <<10, 14>>, <<15, 19>>, <<20, 20>>}

\* the ranges that contain v
RangesOf(v) == {r \in Ranges : r[1] <= v /\ v <= r[2]}

\* a roll invocation has answered with an embed
RollAnswered == request.cmd = "roll" /\ response.kind \in {"roll", "roll_no_champion"}

\* C1: for every roll value in 1..20 the bucket roll assigns is one of the six ranges,
\* it contains the value, and it is the only one of the six that does.
C1_BucketTotalDisjoint ==
  RollAnswered =>
    /\ response.roll_value \in 1..20
    /\ <<response.low, response.high>> \in Ranges
    /\ response.low <= response.roll_value
    /\ response.roll_value <= response.high
    /\ RangesOf(response.roll_value) = {<<response.low, response.high>>}

\* a roll of 9, the top of its range, was answered with the range 5..9
C1_Witness ==
  /\ RollAnswered
  /\ response.roll_value = 9
  /\ response.low = 5
  /\ response.high = 9

\* the table of a role argument
TableOf(role) ==
  IF role = "top" THEN TOP_LANE_CHAMPIONS
  ELSE IF role = "jungle" THEN JUNGLE_CHAMPIONS
  ELSE IF role = "adc" THEN ADC_CHAMPIONS
  ELSE IF role = "mid" THEN MID_LANE_CHAMPIONS
  ELSE SUPPORT_CHAMPIONS

\* the roles whose table is in scope of a roll with the argument role
RolesInScope(role) == IF role = None THEN Roles ELSE {role}

\* the score x lies in the one range that contains v
InRangeOf(x, v) == \E r \in RangesOf(v) : r[1] <= x /\ x <= r[2]

\* C2: the champion roll picks is a key of a table in scope whose score in that table
\* lies in the range of the rolled value; a roll of 20 with role top picks an entry of
\* TOP_LANE_CHAMPIONS of score 20; the logged row names the picked champion.
C2_PickedInScopeAndRange ==
  (RollAnswered /\ response.kind = "roll") =>
    /\ \E role \in RolesInScope(request.role) :
         /\ Has(TableOf(role), response.picked)
         /\ InRangeOf(Get(TableOf(role), response.picked), response.roll_value)
    /\ (response.roll_value = 20 /\ request.role = "top") =>
         /\ Has(TOP_LANE_CHAMPIONS, response.picked)
         /\ Get(TOP_LANE_CHAMPIONS, response.picked) = 20
    /\ rows[Len(rows)].champion = response.picked

\* a roll of 20 with role top picked Kled
C2_Witness ==
  /\ RollAnswered
  /\ response.kind = "roll"
  /\ response.roll_value = 20
  /\ request.role = "top"
  /\ response.picked = "Kled"

\* a step in which a roll invocation returns normally
RollCompletes == Pending("roll") /\ response'.kind \in {"roll", "roll_no_champion"}

C3_Step ==
  /\ RollCompletes =>
       /\ Len(rows') = Len(rows) + 1
       /\ SubSeq(rows', 1, Len(rows)) = rows
  /\ ~RollCompletes => rows' = rows
  /\ Len(rows') = rollsCompleted'

\* C3: the rolls table is append-only: a step that completes a roll invocation adds
\* exactly one row after the existing rows, every other step (stats, leaderboard, lb,
\* champion, init_database, the clock) leaves the rows as they are, and the number of
\* rows equals the number of completed roll invocations.
C3_AppendOnly == [][C3_Step]_vars

\* two rolls were logged and a later leaderboard invocation was answered
C3_Witness ==
  /\ Len(rows) = 2
  /\ rollsCompleted = 2
  /\ request.cmd = "leaderboard"
  /\ response.kind = "leaderboard"

\* a leaderboard or lb invocation has answered with rankings
LeaderboardAnswered == request.cmd \in {"leaderboard", "lb"} /\ response.kind = "leaderboard"

\* C4: for luckiest, unluckiest and highest_avg no entry of the leaderboard belongs to a
\* user with fewer than 5 logged rolls.
C4_MinimumSample ==
  (LeaderboardAnswered /\ request.category \in {"luckiest", "unluckiest", "highest_avg"}) =>
    \A i \in 1..Len(response.entries) :
      Count(UserRows(rows, response.entries[i].user_id)) >= 5

\* highest_avg lists user 1 alone while user 2 has four rolls
C4_Witness ==
  /\ LeaderboardAnswered
  /\ request.category = "highest_avg"
  /\ Len(response.entries) = 1
  /\ response.entries[1].user_id = 1
  /\ Count(UserRows(rows, 2)) = 4

\* the value of a category's metric for the pair (user_id, username), from the table
MetricOf(category, user_id, username) ==
  LET G == {r \in RowSet(rows) : r.user_id = user_id /\ r.username = username}
      N(v) == Count({r \in G : r.roll_value = v})
  IN  IF category = "total_rolls" THEN Count(G)
      ELSE IF category = "natural_20s" THEN N(20)
      ELSE IF category = "natural_1s" THEN N(1)
      ELSE IF category = "luckiest" THEN Round2(100 * N(20), Count(G))
      ELSE IF category = "unluckiest" THEN Round2(100 * N(1), Count(G))
      ELSE IF category = "highest_avg" THEN Round2(SumRolls(G), Count(G))
      ELSE IF category = "most_active_today"
        THEN Count({r \in G : r.timestamp \div TicksPerDay = now \div TicksPerDay})
      ELSE Count({r \in G : now - r.timestamp <= 7 * TicksPerDay})

EntryMetric(category, e) == MetricOf(category, e.user_id, e.username)

\* C5: a leaderboard of limit n has at most n entries, their ranks are 1, 2, ..., k in
\* list order, and the metric of the category does not increase along the list.
C5_LimitRankOrder ==
  LeaderboardAnswered =>
    /\ Len(response.entries) <= request.limit
    /\ \A i \in 1..Len(response.entries) : response.entries[i].rank = i
    /\ \A i \in 1..(Len(response.entries) - 1) :
         EntryMetric(request.category, response.entries[i])
           >= EntryMetric(request.category, response.entries[i + 1])

\* a total_rolls leaderboard of limit 2 lists the two pairs with the most rolls of the
\* three pairs in the table, the first with more rolls than the second
C5_Witness ==
  /\ LeaderboardAnswered
  /\ request.category = "total_rolls"
  /\ request.limit = 2
  /\ Cardinality(GroupsOf(RowSet(rows))) = 3
  /\ Len(response.entries) = 2
  /\ EntryMetric("total_rolls", response.entries[1])
       > EntryMetric("total_rolls", response.entries[2])

\* the luck percentage of user u over all of u's rows; 0 for a user without rolls
LuckOf(u) ==
  IF UserRows(rows, u) = {} THEN 0
  ELSE Round2(100 * Count({r \in UserRows(rows, u) : r.roll_value = 20}),
              Count(UserRows(rows, u)))

\* user w has a strictly greater value than user u under the metric of the category,
\* with the minimum sample of luckiest
Outranks(category, w, u) ==
  IF category = "total_rolls" THEN Count(UserRows(rows, w)) > Count(UserRows(rows, u))
  ELSE IF category = "natural_20s" THEN
    Count({r \in UserRows(rows, w) : r.roll_value = 20})
      > Count({r \in UserRows(rows, u) : r.roll_value = 20})
  ELSE Count(UserRows(rows, w)) >= 5 /\ LuckOf(w) > LuckOf(u)

\* C6: the rank get_user_rank returns is one plus the number of other users whose value
\* under the metric of the category is strictly greater than the given user's.
C6_RankCountsStrictlyGreater ==
  (LeaderboardAnswered /\ response.user_rank.found) =>
    response.user_rank.rank
      = 1 + Cardinality({w \in Users \ {request.user_id} :
                           Outranks(request.category, w, request.user_id)})

\* a stats invocation has returned or raised
StatsDone == request.cmd = "stats" /\ response # NoResponse

\* C7: stats answers a user without rolls with the No Rolls Yet response, and only such
\* a user; no stats invocation raises ZeroDivisionError, and every division it evaluates
\* for a user with rolls has a non-zero divisor.
C7_StatsNoDivisionByZero ==
  StatsDone =>
    /\ response.kind = "exception" => response.error # "ZeroDivisionError"
    /\ response.kind # "exception" =>
         (response.kind = "no_rolls" <=> UserRows(rows, request.user_id) = {})
    /\ response.kind = "stats" =>
         /\ Len(response.divisors) = 3
         /\ \A i \in 1..Len(response.divisors) : response.divisors[i] # 0

\* a user without rolls got No Rolls Yet while the table holds rolls of another user
C7_Witness ==
  /\ StatsDone
  /\ response.kind = "no_rolls"
  /\ Len(rows) > 0

\* a leaderboard or lb invocation has returned or raised
LeaderboardDone == request.cmd \in {"leaderboard", "lb"} /\ response # NoResponse

\* C8: a limit below 1 or above 25 gets the Invalid Limit response without a store
\* query and without an exception, also before the table exists; a limit in 1..25 never
\* gets it.
C8_InvalidLimit ==
  LeaderboardDone =>
    /\ (request.limit < 1 \/ request.limit > 25) =>
         response.kind = "invalid_limit" /\ response.queries = 0
    /\ request.limit \in 1..25 => response.kind # "invalid_limit"

\* limit 26 was rejected before the table existed
C8_Witness ==
  /\ LeaderboardDone
  /\ request.limit = 26
  /\ response.kind = "invalid_limit"
  /\ ~tableExists

\* C9: the aggression score a roll response shows for the picked champion is the score
\* of that champion in a table in scope of the roll, and lies in the range of the rolled
\* value.
C9_ShownAggressionInScope ==
  (RollAnswered /\ response.kind = "roll" /\ response.aggression # <<>>) =>
    \E role \in RolesInScope(request.role) :
      /\ Has(TableOf(role), response.picked)
      /\ Get(TableOf(role), response.picked) = response.aggression[1]
      /\ InRangeOf(response.aggression[1], response.roll_value)

\* a champion invocation has returned
ChampionDone == request.cmd = "champion" /\ response # NoResponse

\* C10: a query that is a case variant of a table key gets the record of that key: the
\* record get_champion_info returns for the key as the tables spell it.
C10_CaseInsensitiveLookup ==
  ChampionDone =>
    \A k \in KeySet(all_champions) :
      request.champion_name \in VariantTable[k] =>
        /\ response.kind = "champion"
        /\ response.info.name = k
        /\ response.info = InfoTable[k]

\* the query teemo got the record of Teemo
C10_Witness ==
  /\ ChampionDone
  /\ request.champion_name = <<"t", "e", "e", "m", "o">>
  /\ response.kind = "champion"
  /\ response.info.name = "Teemo"

\* C11: when the filtered set of names of a roll is empty, roll sends the "No champions
\* found" response, with no champion, and logs the roll with a null champion; when the
\* set is not empty, roll never sends that response and the champion is one of the set.
C11_NoMatchResponse ==
  RollAnswered =>
    /\ Len(rows) = rollsCompleted
    /\ rows[Len(rows)].roll_value = response.roll_value
    /\ IF NamesWithout(response.roll_value, request.role, removed) = {}
         THEN /\ response.kind = "roll_no_champion"
              /\ rows[Len(rows)].champion = None
         ELSE /\ response.kind = "roll"
              /\ response.picked
                   \in NamesWithout(response.roll_value, request.role, removed)
              /\ rows[Len(rows)].champion = response.picked

\* with Kled out of the tables, a roll of 20 with role top found no champion and was
\* logged with a null champion
C11_Witness ==
  /\ RollAnswered
  /\ response.kind = "roll_no_champion"
  /\ response.roll_value = 20
  /\ request.role = "top"
  /\ rows[Len(rows)].champion = None
  /\ rows[Len(rows)].user_id = request.user_id

\* the keys of the merged tables that contain the query q or are contained in it, both
\* lower-cased
RelatedKeys(q) ==
  {all_champions[i][1] : i \in {j \in 1..Len(all_champions) :
      \/ IsSubstring(Lower(q), LoweredKeys[j])
      \/ IsSubstring(LoweredKeys[j], Lower(q))}}

\* a champion invocation has sent the "Champion Not Found" response
NotFoundAnswered == request.cmd = "champion" /\ response.kind = "champion_not_found"

\* C12: a champion name that matches no key gets the "Champion Not Found" response and no
\* exception; its suggestions are at most 5, in sorted order, each containing the query
\* or contained in it, compared case-insensitively; the tip is shown exactly when no
\* key is related to the query.
C12_NotFoundSuggestions ==
  /\ (request.cmd = "champion" /\ response # NoResponse
        /\ \A i \in 1..Len(all_champions) : LoweredKeys[i] # Lower(request.champion_name))
       => NotFoundAnswered
  /\ NotFoundAnswered =>
       /\ Len(response.suggestions) <= 5
       /\ \A i \in 1..(Len(response.suggestions) - 1) :
            StrLess(Chars(response.suggestions[i]), Chars(response.suggestions[i + 1]))
       /\ \A i \in 1..Len(response.suggestions) :
            response.suggestions[i] \in RelatedKeys(request.champion_name)
       /\ response.tip <=> RelatedKeys(request.champion_name) = {}
       /\ response.tip <=> response.suggestions = <<>>

\* a query related to more than five keys got five suggestions
C12_Witness ==
  /\ NotFoundAnswered
  /\ Cardinality(RelatedKeys(request.champion_name)) > 5
  /\ Len(response.suggestions) = 5
  /\ ~response.tip

\* a champion invocation has sent the embed of a champion
ChampionShown == request.cmd = "champion" /\ response.kind = "champion"

\* C13: the icon of a name is the override's file when the name has an override whose
\* file exists, even if the derived file exists too; otherwise the derived file when it
\* exists; otherwise none.  The result is a function of the name and the directory.
C13_IconOverrideFirst ==
  ChampionShown =>
    LET name == response.info.name
        override == Get(ICON_OVERRIDES, name)
        derived == SelectSeq(Chars(name), IsLetter) \o <<".", "p", "n", "g">>
    IN  response.icon_path =
          IF override # None /\ FileChars(override) \in files THEN <<FileChars(override)>>
          ELSE IF derived \in files THEN <<derived>>
          ELSE <<>>

\* with MonkeyKing.png and Wukong.png both in the directory, Wukong got MonkeyKing.png
C13_Witness ==
  /\ ChampionShown
  /\ response.info.name = "Wukong"
  /\ FileChars("MonkeyKing.png") \in files
  /\ default_icon_filename("Wukong") \in files
  /\ response.icon_path = <<FileChars("MonkeyKing.png")>>

\* the invocation handled last has returned normally
Returned == response.kind \notin {"none", "exception"}

\* C14: when a store function or a command handler has returned, no connection it
\* opened is still open, also on the early returns for an unknown category.
C14_ConnectionsClosed == Returned => openConns = 0

\* get_leaderboard_data returned the empty list for an unknown category, its connection
\* closed
C14_Witness ==
  /\ request.cmd = "call"
  /\ request.fn = "get_leaderboard_data"
  /\ request.category = UnknownCategory
  /\ response.kind = "returned"
  /\ response.value = <<>>
  /\ openConns = 0

\* what leaderboard may answer, send and leave open for the user and arguments of the
\* request on the store as it is
LeaderboardOutcomes ==
  IF InvalidLimit(request.limit) THEN
    {<<leaderboard(rows, request.user_id, request.category, request.limit, <<>>), 1, 0>>}
  ELSE IF ~tableExists THEN {<<Exception("OperationalError"), 0, 1>>}
  ELSE {<<leaderboard(rows, request.user_id, request.category, request.limit, d), 1, 0>> :
          d \in get_leaderboard_data(rows, now, request.category, request.limit)}

\* C15: lb answers as leaderboard does for the same store, user, category and limit:
\* each of them can produce every outcome of leaderboard and no other, and neither
\* changes the store.
C15_LbIsLeaderboard ==
  /\ (request.cmd \in {"lb", "leaderboard"} /\ response # NoResponse)
       => <<response, sent, openConns>> \in LeaderboardOutcomes
  /\ Pending("lb") =>
       /\ \A o \in LeaderboardOutcomes :
            ENABLED (Lb /\ response' = o[1] /\ sent' = o[2] /\ openConns' = o[3])
       /\ ~ENABLED (Lb /\ <<tableExists, rows, now>>' # <<tableExists, rows, now>>)
  /\ Pending("leaderboard") =>
       /\ \A o \in LeaderboardOutcomes :
            ENABLED (Leaderboard /\ response' = o[1] /\ sent' = o[2] /\ openConns' = o[3])
       /\ ~ENABLED (Leaderboard /\ <<tableExists, rows, now>>' # <<tableExists, rows, now>>)

\* lb with limit 26 got the Invalid Limit response
C15_Witness ==
  /\ request.cmd = "lb"
  /\ request.limit = 26
  /\ response.kind = "invalid_limit"
  /\ sent = 1
\* C16: once get_token has run, the process has exited with status 1 and the "not set"
\* diagnostic if the cleaned value of DISCORD_TOKEN is empty, and with status 1 and the
\* "doesn't look like a valid token" diagnostic if it is not empty but fails the
\* pattern; otherwise client.run got the cleaned value, and a login the platform rejects
\* exits with status 1 and a third diagnostic.  The client is never started with an
\* empty or pattern-failing token.
C16_TokenFatal ==
  process.phase # "main" =>
    /\ CleanToken(process.env) = <<>> =>
         /\ process.phase = "exited"
         /\ process.status = <<1>>
         /\ process.stderr = "not_set"
    /\ (CleanToken(process.env) # <<>>
          /\ ~is_likely_discord_token(CleanToken(process.env))) =>
         /\ process.phase = "exited"
         /\ process.status = <<1>>
         /\ process.stderr = "invalid"
    /\ (CleanToken(process.env) # <<>>
          /\ is_likely_discord_token(CleanToken(process.env))) =>
         /\ process.token = CleanToken(process.env)
         /\ \/ process.phase \in {"login", "running"} /\ process.status = <<>>
            \/ /\ process.phase = "exited"
               /\ process.status = <<1>>
               /\ process.stderr = "login_failed"
    /\ process.phase \in {"login", "running"} =>
         /\ process.token # <<>>
         /\ is_likely_discord_token(process.token)

\* a quoted value with a "Bot " prefix whose first segment is one character short made
\* the process exit with the second diagnostic
C16_Witness ==
  /\ process.phase = "exited"
  /\ process.status = <<1>>
  /\ process.stderr = "invalid"
  /\ process.env[1] = "'"
  /\ CleanToken(process.env) =
       TokenOf(SegmentMinima[1] - 1, SegmentMinima[2], SegmentMinima[3])

\* C17: when the sync call of on_ready raises, the process keeps running, the warning is
\* on stderr, and the rolls table exists, because init_database ran before the sync.
C17_SyncFailureNonFatal ==
  process.ready = "sync" =>
    /\ process.phase = "running"
    /\ process.status = <<>>
    /\ process.stderr = "sync_warning"
    /\ tableExists

\* after a failed sync the bot answered /stats from the table
C17_Witness ==
  /\ process.ready = "sync"
  /\ process.phase = "running"
  /\ tableExists
  /\ request.cmd = "stats"
  /\ response.kind = "no_rolls"

\* C18: the leaderboard response shows a rank only to a user with at least one logged
\* roll.
C18_RankOnlyWithData ==
  (LeaderboardAnswered /\ response.user_rank.found) =>
    UserRows(rows, request.user_id) # {}

\* the commands of the bot
Commands == {"roll", "stats", "leaderboard", "lb", "champion"}

\* C19: a command handler that returns without an exception has sent exactly one
\* response.
C19_ExactlyOneResponse ==
  (request.cmd \in Commands /\ Returned) => sent = 1

\* leaderboard returned from its limit check after one response
C19_Witness ==
  /\ request.cmd = "leaderboard"
  /\ response.kind = "invalid_limit"
  /\ sent = 1

\* the row roll logs for the response it sent
ShownRow ==
  [id |-> Len(rows), user_id |-> request.user_id, username |-> request.username,
   roll_value |-> response.roll_value, role |-> request.role,
   champion |-> IF response.kind = "roll" THEN response.picked ELSE None,
   timestamp |-> rows[Len(rows)].timestamp]

\* C20: every roll that was answered is in the table, the last one with the value, role
\* and champion its response shows; a stats response counts all rows of its user and a
\* total_rolls leaderboard all rows of each listed pair.
C20_AnsweredRollsAreLogged ==
  /\ Len(rows) = rollsCompleted
  /\ RollAnswered => rows[Len(rows)] = ShownRow
  /\ (request.cmd = "stats" /\ Returned) =>
       /\ response.kind = "no_rolls" <=> UserRows(rows, request.user_id) = {}
       /\ response.kind = "stats" =>
            response.total_rolls = Count(UserRows(rows, request.user_id))
  /\ (LeaderboardAnswered /\ request.category = "total_rolls") =>
       \A i \in 1..Len(response.entries) :
         response.entries[i].data[1] =
           Count(GroupRows(RowSet(rows), <<response.entries[i].user_id,
                                           response.entries[i].username>>))

\* after two answered rolls of one user, stats counted both
C20_Witness ==
  /\ rollsCompleted = 2
  /\ request.cmd = "stats"
  /\ response.kind = "stats"
  /\ response.total_rolls = 2
(***************************************************************************)
(* Claims C21 to C23.                                                      *)
(***************************************************************************)
\* C21: no two entries of a leaderboard belong to the same user_id, whatever the
\* category, the limit and the table, also when one user_id logged rolls under two names.
C21_OneEntryPerUser ==
  LeaderboardAnswered =>
    \A i, j \in 1..Len(response.entries) :
      i # j => response.entries[i].user_id # response.entries[j].user_id

\* C22: for total_rolls, natural_20s and luckiest, when the invoking user is at position
\* p of the leaderboard, the rank get_user_rank gives that user is at most p.
C22_RankAtMostPosition ==
  (LeaderboardAnswered /\ request.category \in RankCategories) =>
    \A p \in 1..Len(response.entries) :
      response.entries[p].user_id = request.user_id => response.user_rank.rank <= p

====
